---- MODULE Spec2Model ----
(***************************************************************************)
(* Model of the enrichment pipeline of vgame-horizon:                      *)
(*   - the name translator   (detail_fetcher.py, DoubaoDetailFetcher)      *)
(*   - the notable-game classifier (server.py and api/index.py)            *)
(*   - the credit-detail fetchers and the detail lookup                    *)
(*   - the games-by-month listing                                          *)
(*   - the company extractor (server.py, api/index.py, main.py)            *)
(*   - the genre extractor (server.py, api/index.py, main.py)              *)
(*   - the catalog client (igdb_client.py): the query of                   *)
(*     get_upcoming_games, authenticate and _request                       *)
(*   - the serverless handler do_GET (api/index.py)                        *)
(*                                                                         *)
(* Python strings are sequences of Unicode code points (integers), so that *)
(* lower(), strip(), substring containment and the CJK range test are      *)
(* computed, not assumed.                                                  *)
(***************************************************************************)
EXTENDS Integers, Sequences, FiniteSets, TLC

VARIABLES
    \* ---- translate_game_names (the loop over batches) ----
    t_pc,          \* "call" | "send" | "await" | "returned" | "raised"
    configured,    \* ARK_API_KEY and ARK_ENDPOINT_ID are both set
    english_names, \* the argument: a list of names
    batch_start,   \* the loop variable of translate_game_names (0-based)
    all_results,   \* the dict all_results; the return value once returned
    sent,          \* history: the batches posted to the LLM endpoint, in order
    responses,     \* history: the responses received, in order
    \* ---- _translate_batch called on one batch ----
    b_pc,          \* "call" | "returned" | "raised"
    b_names,       \* the argument english_names of _translate_batch
    b_response,    \* the response of the endpoint (NoResponse before the call)
    b_requests,    \* number of requests posted by the call
    b_result,      \* the returned dict
    \* ---- is_notable_game ----
    n_pc,          \* "call" | "returned" | "raised"
    n_impl,        \* "server" (server.py) | "api" (api/index.py)
    n_game,        \* the game record
    n_result,      \* the returned bool
    \* ---- the company test inside is_notable_game ----
    m_pc,          \* "call" | "returned"
    m_notable,     \* an entry of the allow-list
    m_company,     \* a company name
    m_result,      \* whether the test of the two names succeeds
    \* ---- the detail lookup (get_game_detail / handle_get_detail) ----
    d_pc,          \* "call" | "await_primary" | "primary_done" |
                   \* "await_fallback" | "fallback_done" | "returned" |
                   \* "raised" (an exception left fetch)
    d_impl,        \* "server" (server.py) | "api" (api/index.py)
    d_env,         \* which credentials the environment holds
    d_name,        \* the path parameter game_name
    d_fallback,    \* the query parameter fallback_name
    d_sent,        \* history: the names requests were posted for, in order
    d_answers,     \* history: the responses received, in order
    d_details,     \* the local variable details
    d_response,    \* the response of the lookup
    \* ---- the games listing (get_games / handle_get_games) ----
    l_pc,          \* "call" | "catalog_done" | "await_translation" |
                   \* "translated" | "returned"
    l_impl,        \* "server" (server.py) | "api" (api/index.py)
    l_client,      \* create_client_from_env() returned a client
    l_translate,   \* the query parameter translate
    l_games,       \* the local variable games
    l_calls,       \* history: the arguments of translate_game_names calls
    l_cn_names,    \* the local variable cn_names
    l_response,    \* the response of the listing
    \* ---- get_companies ----
    g_pc,          \* "call" | "returned"
    g_impl,        \* "server" | "api" | "cli" (main.py)
    g_role,        \* the argument role
    g_game,        \* the game record (its field involved_companies)
    g_result,      \* the returned value
    \* ---- get_genres ----
    x_pc,          \* "call" | "returned" | "raised"
    x_impl,        \* "server" | "api" | "cli" (main.py)
    x_game,        \* the game record (its field genres)
    x_result,      \* the returned value: a list of names (server, api) or a
                   \* string (cli)
    \* ---- IGDBClient.get_upcoming_games (building the catalog query) ----
    q_pc,          \* "call" | "requested" (the query was handed to _request) |
                   \* "raised"
    q_year,        \* the argument year (0: None or 0, both false in Python)
    q_month,       \* the argument month (0: None or 0)
    q_now,         \* what datetime.now(timezone.utc) gives: <<year, month>>
    q_query,       \* the query handed to _request
    \* ---- IGDBClient._request, call after call ----
    c_pc,          \* "ready" (no call is running) | "auth" (the token request
                   \* is out) | "catalog" (the catalog request is out) |
                   \* "raised"
    c_impl,        \* "server": one client for the process (server.py) |
                   \* "api": a new client for every request (api/index.py)
    c_token,       \* the field access_token of the client
    c_env,         \* how the two services behave during the running call
    c_log,         \* history: the requests posted, in order
    c_calls,       \* number of calls that have returned
    c_result,      \* what the last call returned
    \* ---- handler.do_GET of api/index.py ----
    h_pc,          \* "request" | "answered"
    h_path,        \* the path of the request URL
    h_year,        \* the query parameter year: "absent" | "number" | "text"
    h_env,         \* which credentials the environment holds
    h_wire,        \* the status of the status line sent (0: none yet)
    h_status,      \* the status paired with the body (data, status)
    h_body         \* the kind of body written

t_vars == <<t_pc, configured, english_names, batch_start, all_results, sent, responses>>
b_vars == <<b_pc, b_names, b_response, b_requests, b_result>>
n_vars == <<n_pc, n_impl, n_game, n_result>>
m_vars == <<m_pc, m_notable, m_company, m_result>>
l_vars == <<l_pc, l_impl, l_client, l_translate, l_games, l_calls, l_cn_names, l_response>>
g_vars == <<g_pc, g_impl, g_role, g_game, g_result>>
d_vars == <<d_pc, d_impl, d_env, d_name, d_fallback, d_sent, d_answers, d_details, d_response>>
x_vars == <<x_pc, x_impl, x_game, x_result>>
q_vars == <<q_pc, q_year, q_month, q_now, q_query>>
c_vars == <<c_pc, c_impl, c_token, c_env, c_log, c_calls, c_result>>
h_vars == <<h_pc, h_path, h_year, h_env, h_wire, h_status, h_body>>
vars == <<t_vars, b_vars, n_vars, m_vars, d_vars, l_vars, g_vars, x_vars, q_vars, c_vars, h_vars>>

----------------------------------------------------------------------------
(* Python str operations on sequences of code points                       *)

Range(s) == {s[i] : i \in 1..Len(s)}

\* str.isspace for the ASCII range
IsSpace(c) == c \in (9..13) \cup (28..32)

\* str.lower() on one code point (ASCII letters; CJK ideographs have no case)
LowerChar(c) == IF c \in 65..90 THEN c + 32 ELSE c

\* str.lower()
Lower(s) == [i \in 1..Len(s) |-> LowerChar(s[i])]

\* str.strip(): drop leading and trailing whitespace
Strip(s) ==
    LET keep == {i \in 1..Len(s) : ~IsSpace(s[i])}
    IN  IF keep = {} THEN <<>>
        ELSE LET lo == CHOOSE i \in keep : \A j \in keep : i <= j
                 hi == CHOOSE i \in keep : \A j \in keep : j <= i
             IN  SubSeq(s, lo, hi)

\* the Python expression  a in b  for two strings
Contains(a, b) ==
    \E k \in 0..(Len(b) - Len(a)) : \A i \in 1..Len(a) : b[k + i] = a[i]

\* first and last code point of the CJK Unified Ideographs block
CJK_FIRST == 19968
CJK_LAST == 40959

\* HasChinese with the lower bound of the range off by one
HasChineseOffByOne(s) ==
    \E i \in 1..Len(s) : CJK_FIRST - 1 <= s[i] /\ s[i] <= CJK_LAST

\* any('\u4e00' <= char <= '\u9fff' for char in s)
HasChinese(s) == \E i \in 1..Len(s) : CJK_FIRST <= s[i] /\ s[i] <= CJK_LAST

----------------------------------------------------------------------------
(* JSON values as the translator reads them.  A value is a record          *)
(* [t, s]: t is the JSON type, s the text of a string (<<>> otherwise).    *)

Str(s)  == [t |-> "str",    s |-> s]
JNum    == [t |-> "num",    s |-> <<>>]    \* a non-zero number
JTrue   == [t |-> "true",   s |-> <<>>]
JFalse  == [t |-> "false",  s |-> <<>>]
JNull   == [t |-> "null",   s |-> <<>>]
Absent  == [t |-> "absent", s |-> <<>>]    \* the key is not in the object

\* dict.get(key, default)
Get(v, default) == IF v.t = "absent" THEN default ELSE v

\* Python truth value of a JSON value
Truthy(v) == v.t \in {"true", "num"} \/ (v.t = "str" /\ v.s # <<>>)

\* an element of the returned array: a JSON object with the keys en, cn,
\* sure (each possibly absent), or something that is not an object
Triple(en, cn, sure) == [kind |-> "obj", en |-> en, cn |-> cn, sure |-> sure]
NonDict == [kind |-> "other", en |-> Absent, cn |-> Absent, sure |-> Absent]

(* The text of the model's answer, as a sequence of tokens:                *)
(*   prose       text that is no JSON and has no bracket and no fence      *)
(*   fence_json  the characters ```json                                    *)
(*   fence       the characters ``` (not followed by json)                 *)
(*   lbr, rbr    [ and ]                                                   *)
(*   lbrace, rbrace, key     { and } and  "name":                          *)
(*   scalar      a JSON scalar (a number, null, a quoted string)           *)
(*   item        one element of an array, with the comma that separates it *)
Tok(k) == [k |-> k, item |-> NonDict]
ItemTok(it) == [k |-> "item", item |-> it]

\* index of the first token of c at or after position from whose kind is
\* in K; 0 if there is none
FindFrom(c, K, from) ==
    LET hits == {i \in from..Len(c) : c[i].k \in K}
    IN  IF hits = {} THEN 0 ELSE CHOOSE i \in hits : \A j \in hits : i <= j

\* index of the last token of c whose kind is in K; 0 if there is none
RFind(c, K) ==
    LET hits == {i \in 1..Len(c) : c[i].k \in K}
    IN  IF hits = {} THEN 0 ELSE CHOOSE i \in hits : \A j \in hits : j <= i

\* c.split(sep)[1].split("```")[0] where sep is the fence kind in K: the
\* text after the first separator, up to the next fence of any kind
BetweenFences(c, K) ==
    LET a == FindFrom(c, K, 1)
        b == FindFrom(c, {"fence_json", "fence"}, a + 1)
    IN  SubSeq(c, a + 1, IF b = 0 THEN Len(c) ELSE b - 1)

\* the markdown code-block handling of _translate_batch
StripFence(c) ==
    IF FindFrom(c, {"fence_json"}, 1) # 0 THEN BetweenFences(c, {"fence_json"})
    ELSE IF FindFrom(c, {"fence"}, 1) # 0 THEN BetweenFences(c, {"fence"})
    ELSE c

\* start = content.find("["); end = content.rfind("]") + 1;
\* if start != -1 and end > start: content = content[start:end]
SliceBrackets(c) ==
    LET start == FindFrom(c, {"lbr"}, 1)
        end == RFind(c, {"rbr"})
    IN  IF start # 0 /\ end >= start THEN SubSeq(c, start, end) ELSE c

IsArrayText(c) ==
    /\ Len(c) >= 2
    /\ c[1].k = "lbr"
    /\ c[Len(c)].k = "rbr"
    /\ \A i \in 2..(Len(c) - 1) : c[i].k = "item"

\* json.loads(text): ok = FALSE is a JSONDecodeError, otherwise the value
\* is a list (with its elements) or something else
JsonLoads(c) ==
    IF IsArrayText(c)
    THEN [ok |-> TRUE, isList |-> TRUE,
          items |-> [i \in 1..(Len(c) - 2) |-> c[i + 1].item]]
    ELSE IF \/ (Len(c) = 1 /\ c[1].k = "scalar")
            \/ (Len(c) = 2 /\ c[1].k = "lbrace" /\ c[2].k = "rbrace")
            \/ (/\ Len(c) >= 5
                /\ c[1].k = "lbrace" /\ c[2].k = "key"
                /\ c[Len(c)].k = "rbrace"
                /\ IsArrayText(SubSeq(c, 3, Len(c) - 1)))
    THEN [ok |-> TRUE, isList |-> FALSE, items |-> <<>>]
    ELSE [ok |-> FALSE, isList |-> FALSE, items |-> <<>>]

(* What the endpoint does with one request.  status:                       *)
(*   conn_error    requests.post raises (no connection, timeout)           *)
(*   http_error    raise_for_status raises (non-2xx)                       *)
(*   bad_body      response.json() raises                                  *)
(*   no_choices    result["choices"][0]["message"]["content"] raises       *)
(*   null_content  the content is null                                     *)
(*   ok            the content is the text in content                      *)
Response(status, content) == [status |-> status, content |-> content]
NoResponse == Response("none", <<>>)

----------------------------------------------------------------------------
(* DoubaoDetailFetcher._translate_batch                                    *)

\* the result of running a block: it raised exc, or it returned ret
Return(d) == [exc |-> "none", ret |-> d]
Raise(e) == [exc |-> e, ret |-> <<>>]

\* {name: name for name in english_names}
Identity(names) == [n \in Range(names) |-> n]

\* the numbered list of the prompt: "1. name", "2. name", ...
GamesList(names) == [i \in 1..Len(names) |-> <<i, names[i]>>]

\* FuzzyMatch without the break: every name that compares equal is written
FuzzyMatchAll(d, names, en, cn) ==
    LET en_lower == Strip(Lower(en))
    IN  [n \in DOMAIN d |-> IF Strip(Lower(n)) = en_lower THEN cn ELSE d[n]]

\* for orig_name in english_names:
\*     if orig_name.lower().strip() == en_lower: result_dict[orig_name] = cn; break
FuzzyMatch(d, names, en, cn) ==
    LET en_lower == Strip(Lower(en))
        hits == {i \in 1..Len(names) : Strip(Lower(names[i])) = en_lower}
    IN  IF hits = {} THEN d
        ELSE LET first == CHOOSE i \in hits : \A j \in hits : i <= j
             IN  [d EXCEPT ![names[first]] = cn]

\* ChineseCheck without the test for a Chinese character
ChineseCheckOff(cn) == IF cn.t # "str" THEN "TypeError" ELSE "yes"

\* the cn must contain a Chinese character; iterating a value that is not
\* a string raises TypeError
ChineseCheck(cn) ==
    IF cn.t # "str" THEN "TypeError"
    ELSE IF HasChinese(cn.s) THEN "yes" ELSE "no"

\* SureGate that lets every triple through
SureGateOff(is_sure) == TRUE

\* the confidence gate:  if not is_sure: continue
SureGate(is_sure) == Truthy(is_sure)

\* MatchName that stores the translation under en_name without looking
\* whether en_name is a name of the batch
MatchNameInsert(d, names, en, cn) ==
    IF en.t # "str" THEN Raise("AttributeError")
    ELSE Return([n \in DOMAIN d \cup {en.s} |-> IF n = en.s THEN cn.s ELSE d[n]])

\* if en_name in result_dict: ... else: en_name.lower() ...
MatchName(d, names, en, cn) ==
    IF en.t # "str" THEN Raise("AttributeError")
    ELSE IF en.s \in DOMAIN d THEN Return([d EXCEPT ![en.s] = cn.s])
    ELSE Return(FuzzyMatch(d, names, en.s, cn.s))

\* the body of  for item in translations:  for one item
ApplyItem(item, d, names) ==
    IF item.kind # "obj" THEN Return(d)
    ELSE LET en_name == Get(item.en, Str(<<>>))
             cn_name == Get(item.cn, Str(<<>>))
             is_sure == Get(item.sure, JFalse)
         IN  IF ~Truthy(en_name) \/ ~Truthy(cn_name) THEN Return(d)
             ELSE IF ~SureGate(is_sure) THEN Return(d)
             ELSE LET has == ChineseCheck(cn_name)
                  IN  IF has = "TypeError" THEN Raise("TypeError")
                      ELSE IF has = "no" THEN Return(d)
                      ELSE MatchName(d, names, en_name, cn_name)

RECURSIVE ApplyItems(_, _, _, _)
ApplyItems(items, i, d, names) ==
    IF i > Len(items) THEN Return(d)
    ELSE LET step == ApplyItem(items[i], d, names)
         IN  IF step.exc # "none" THEN step
             ELSE ApplyItems(items, i + 1, step.ret, names)

\* the try block
TryBlock(names, resp) ==
    IF resp.status = "conn_error" THEN Raise("RequestException")
    ELSE IF resp.status = "http_error" THEN Raise("HTTPError")
    ELSE IF resp.status = "bad_body" THEN Raise("ValueError")
    ELSE IF resp.status = "no_choices" THEN Raise("KeyError")
    ELSE IF resp.status = "null_content" THEN Raise("TypeError")
    ELSE LET translations == JsonLoads(SliceBrackets(StripFence(resp.content)))
         IN  IF ~translations.ok THEN Raise("JSONDecodeError")
             ELSE IF ~translations.isList THEN Return(Identity(names))
             ELSE ApplyItems(translations.items, 1, Identity(names), names)

\* ExceptHandler that catches the request and JSON errors only
ExceptHandlerNarrow(o, names) ==
    IF o.exc \in {"RequestException", "HTTPError", "JSONDecodeError"}
    THEN Return(Identity(names))
    ELSE o

\* except Exception as e: ... return {name: name for name in english_names}
ExceptHandler(o, names) ==
    IF o.exc # "none" THEN Return(Identity(names)) ELSE o

\* _translate_batch once the response is there (english_names not empty)
TranslateBatch(names, resp) == ExceptHandler(TryBlock(names, resp), names)

----------------------------------------------------------------------------
(* Inputs of the translator                                                *)

\* longest list of names passed to translate_game_names
MaxNames == 12
\* longest array in a model answer
MaxItems == 2

\* the batch size of translate_game_names
BATCH_SIZE == 5

\* the i-th catalog name: "Ga", "Gb", "Gc", ...
NameAt(i) == <<71, 96 + i>>
\* the same name as a model may echo it: "Ga" as "GA ", "GA " as " ga"
Variant(n) ==
    IF Len(n) = 2 THEN <<n[1], n[2] - 32, 32>>
    ELSE <<32, LowerChar(n[1]), LowerChar(n[2])>>
\* a name that is in no list
Unknown == <<88, 120>>                \* "Xx"

NameList(k) == [i \in 1..k |-> NameAt(i)]

ZH     == <<22622, 23572>>            \* two ideographs
ZH2    == <<39532>>                   \* one ideograph
MIXED  == <<90, 22622>>               \* a Latin letter and an ideograph
LATIN  == <<90, 101>>                 \* "Ze"
BELOW  == <<19967>>                   \* U+4DFF, just below the block
ABOVE  == <<40960>>                   \* U+A000, just above the block
FIRST  == <<19968>>                   \* U+4E00
LAST   == <<40959>>                   \* U+9FFF

\* lists with a repeated name, with names differing only in case, with
\* blanks around a name
SpecialLists ==
    { <<NameAt(1), NameAt(2), NameAt(1)>>,
      <<NameAt(1), Variant(NameAt(1)), NameAt(2)>>,
      <<Variant(NameAt(2)), NameAt(1)>>,
      NameList(5) \o <<NameAt(1)>>,
      NameList(5) \o <<NameAt(2), NameAt(1), Variant(NameAt(3))>> }

InputLists == {NameList(k) : k \in 0..MaxNames} \cup SpecialLists

BatchLists == {NameList(k) : k \in 0..BATCH_SIZE}
              \cup {l \in SpecialLists : Len(l) <= BATCH_SIZE}

\* the array  [ item, item, ... ]  as text
ArrayText(items) ==
    <<Tok("lbr")>> \o [i \in 1..Len(items) |-> ItemTok(items[i])] \o <<Tok("rbr")>>

\* the ways a model wraps (or spoils) an array
Wrappings(items) ==
    LET a == ArrayText(items) IN
    { a,
      <<Tok("fence_json")>> \o a \o <<Tok("fence")>>,
      <<Tok("fence")>> \o a \o <<Tok("fence")>>,
      <<Tok("prose"), Tok("fence_json")>> \o a \o <<Tok("fence"), Tok("prose")>>,
      <<Tok("fence_json")>> \o a,
      <<Tok("prose")>> \o a \o <<Tok("prose")>>,
      <<Tok("lbrace"), Tok("key")>> \o a \o <<Tok("rbrace")>>,
      <<Tok("lbr")>> \o [i \in 1..Len(items) |-> ItemTok(items[i])],
      <<Tok("rbr")>> \o a,
      a \o <<Tok("prose"), Tok("rbr")>>,
      <<Tok("rbr"), Tok("lbr")>>,
      <<Tok("fence"), Tok("prose"), Tok("fence")>> \o a,
      <<Tok("prose")>>,
      <<Tok("scalar")>>,
      <<Tok("lbrace"), Tok("rbrace")>>,
      <<>> }

\* answers that carry no text
Failures ==
    {Response(st, <<>>) :
        st \in {"conn_error", "http_error", "bad_body", "no_choices", "null_content"}}

\* triples a model may return for a batch: about its first name, about its
\* last name in another spelling, about a name that is not in the batch
TriplePool(names) ==
    LET a == Str(names[1])
        v == Str(Variant(names[Len(names)]))
    IN  { Triple(a, Str(ZH), JTrue),
          Triple(v, Str(ZH2), JTrue),
          Triple(a, Str(ZH2), JFalse),
          Triple(v, Str(ZH), JFalse),
          Triple(a, Str(LATIN), JTrue),
          Triple(a, Str(<<>>), JTrue),
          Triple(Str(<<>>), Str(ZH), JTrue),
          Triple(Str(Unknown), Str(ZH), JTrue),
          Triple(a, Str(ZH), Absent),
          Triple(a, JNum, JTrue),
          Triple(JNum, Str(ZH), JTrue),
          Triple(a, Str(MIXED), JTrue),
          NonDict }

\* one triple with every combination of field values
FieldPool(names) ==
    { Triple(en, cn, sure) :
        en \in {Str(names[1]), Str(Variant(names[Len(names)])), Str(Unknown),
                Str(<<>>), Absent, JNull, JNum},
        cn \in {Str(ZH), Str(MIXED), Str(LATIN), Str(BELOW), Str(ABOVE),
                Str(FIRST), Str(LAST), Str(<<>>), Absent, JNull, JNum},
        sure \in {JTrue, JFalse, Absent, JNull, JNum, Str(LATIN), Str(<<>>)} }

RECURSIVE SeqsUpTo(_, _)
\* the sequences over S of length at most n
SeqsUpTo(S, n) ==
    IF n = 0 THEN {<<>>}
    ELSE LET shorter == SeqsUpTo(S, n - 1)
         IN  shorter \cup {Append(q, x) : q \in shorter, x \in S}

\* the answers _translate_batch is tried on
RichResponses(names) ==
    Failures
    \cup {Response("ok", ArrayText(items)) : items \in SeqsUpTo(TriplePool(names), MaxItems)}
    \cup {Response("ok", ArrayText(<<t>>)) : t \in FieldPool(names)}
    \cup {Response("ok", c) : c \in Wrappings(<<Triple(Str(names[1]), Str(ZH), JTrue)>>)}
    \cup {Response("ok", ArrayText(<<Triple(Str(Variant(Variant(names[1]))), Str(ZH), JTrue)>>))}

\* every name of the batch translated, each echoed exactly
AllTranslated(names) ==
    [i \in 1..Len(names) |-> Triple(Str(names[i]), Str(ZH), JTrue)]

\* the answers the loop of translate_game_names is tried on
LoopResponses(names) ==
    LET a == Str(names[1])
        v == Str(Variant(names[Len(names)]))
        one == <<Triple(a, Str(ZH), JTrue)>>
    IN  Failures
        \cup { Response("ok", <<Tok("prose")>>),
               Response("ok", <<>>),
               Response("ok", <<Tok("lbrace"), Tok("rbrace")>>),
               Response("ok", ArrayText(one)),
               Response("ok", <<Tok("fence_json")>> \o ArrayText(AllTranslated(names))
                              \o <<Tok("fence")>>),
               Response("ok", ArrayText(<<Triple(v, Str(ZH2), JTrue),
                                          Triple(a, Str(ZH), JFalse)>>)),
               Response("ok", ArrayText(<<Triple(a, Str(ZH), JTrue),
                                          Triple(a, JNum, JTrue)>>)),
               Response("ok", ArrayText(<<Triple(Str(Unknown), Str(ZH), JTrue),
                                          Triple(a, Str(LATIN), JTrue)>>)) }

----------------------------------------------------------------------------
(* _translate_batch on one batch                                           *)

IdleB ==
    /\ b_pc = "idle" /\ b_names = <<>> /\ b_response = NoResponse
    /\ b_requests = 0 /\ b_result = <<>>

\* if not english_names: return {}      -- nothing is posted
BatchEmpty ==
    /\ b_pc = "call"
    /\ b_names = <<>>
    /\ b_pc' = "returned"
    /\ b_result' = <<>>
    /\ UNCHANGED <<b_names, b_response, b_requests>>

\* one request, then the try block and the except clause
BatchRequest ==
    /\ b_pc = "call"
    /\ b_names # <<>>
    /\ \E resp \in RichResponses(b_names) :
         LET o == TranslateBatch(b_names, resp)
         IN  /\ b_response' = resp
             /\ b_requests' = b_requests + 1
             /\ IF o.exc = "none"
                THEN b_pc' = "returned" /\ b_result' = o.ret
                ELSE b_pc' = "raised" /\ b_result' = <<>>
    /\ UNCHANGED b_names

----------------------------------------------------------------------------
(* translate_game_names                                                    *)

IdleT ==
    /\ t_pc = "idle" /\ configured = FALSE /\ english_names = <<>>
    /\ batch_start = 0 /\ all_results = <<>> /\ sent = <<>> /\ responses = <<>>

\* Batch with a slice that is one name too long
BatchTooLong(names, start) ==
    SubSeq(names, start + 1,
           IF start + BATCH_SIZE + 1 < Len(names) THEN start + BATCH_SIZE + 1
           ELSE Len(names))

\* english_names[batch_start:batch_start + BATCH_SIZE]  (batch_start 0-based)
Batch(names, start) ==
    SubSeq(names, start + 1,
           IF start + BATCH_SIZE < Len(names) THEN start + BATCH_SIZE ELSE Len(names))

\* Update that replaces all_results by the mapping of the batch
UpdateReplace(all, batch_results) == batch_results

\* Update that keeps the value a name already has
UpdateKeepFirst(all, batch_results) ==
    [n \in DOMAIN all \cup DOMAIN batch_results |->
        IF n \in DOMAIN all THEN all[n] ELSE batch_results[n]]

\* all_results.update(batch_results)
Update(all, batch_results) ==
    [n \in DOMAIN all \cup DOMAIN batch_results |->
        IF n \in DOMAIN batch_results THEN batch_results[n] ELSE all[n]]

\* the module-level translate_game_names without ARK_API_KEY or
\* ARK_ENDPOINT_ID: the names come back unchanged
TranslateNoConfig ==
    /\ t_pc = "call"
    /\ ~configured
    /\ t_pc' = "returned"
    /\ all_results' = Identity(english_names)
    /\ UNCHANGED <<configured, english_names, batch_start, sent, responses>>

\* if not english_names: return {}
TranslateEmpty ==
    /\ t_pc = "call"
    /\ configured
    /\ english_names = <<>>
    /\ t_pc' = "returned"
    /\ all_results' = <<>>
    /\ UNCHANGED <<configured, english_names, batch_start, sent, responses>>

\* all_results = {}; the loop starts at batch_start = 0
TranslateBegin ==
    /\ t_pc = "call"
    /\ configured
    /\ english_names # <<>>
    /\ t_pc' = "send"
    /\ all_results' = <<>>
    /\ batch_start' = 0
    /\ UNCHANGED <<configured, english_names, sent, responses>>

\* _translate_batch(batch) builds the prompt and posts it
SendBatch ==
    /\ t_pc = "send"
    /\ sent' = Append(sent, GamesList(Batch(english_names, batch_start)))
    /\ t_pc' = "await"
    /\ UNCHANGED <<configured, english_names, batch_start, all_results, responses>>

\* the next value of the loop: the next batch, or return all_results
NextBatch(names, start) ==
    IF start + BATCH_SIZE < Len(names) THEN "send" ELSE "returned"

\* the response arrives; _translate_batch returns; update; next batch
ReceiveBatch ==
    /\ t_pc = "await"
    /\ \E resp \in LoopResponses(Batch(english_names, batch_start)) :
         LET o == TranslateBatch(Batch(english_names, batch_start), resp)
         IN  /\ responses' = Append(responses, resp)
             /\ IF o.exc = "none"
                THEN /\ all_results' = Update(all_results, o.ret)
                     /\ batch_start' = batch_start + BATCH_SIZE
                     /\ t_pc' = NextBatch(english_names, batch_start)
                ELSE /\ t_pc' = "raised"
                     /\ UNCHANGED <<all_results, batch_start>>
    /\ UNCHANGED <<configured, english_names, sent>>

----------------------------------------------------------------------------
(* is_notable_game (server.py and api/index.py)                            *)

\* NOTABLE_DEVELOPERS of server.py
NOTABLE_DEVELOPERS ==
  {
    <<78,105,110,116,101,110,100,111>>,  \* "Nintendo"
    <<78,105,110,116,101,110,100,111,32,69,80,68>>,  \* "Nintendo EPD"
    <<78,105,110,116,101,110,100,111,32,69,65,68>>,  \* "Nintendo EAD"
    <<83,113,117,97,114,101,32,69,110,105,120>>,  \* "Square Enix"
    <<83,113,117,97,114,101>>,  \* "Square"
    <<69,110,105,120>>,  \* "Enix"
    <<66,97,110,100,97,105,32,78,97,109,99,111>>,  \* "Bandai Namco"
    <<66,97,110,100,97,105,32,78,97,109,99,111,32,69,110,116,101,114,116,97,105,110,109,101,110,116>>,  \* "Bandai Namco Entertainment"
    <<66,97,110,100,97,105,32,78,97,109,99,111,32,83,116,117,100,105,111,115>>,  \* "Bandai Namco Studios"
    <<67,97,112,99,111,109>>,  \* "Capcom"
    <<67,65,80,67,79,77>>,  \* "CAPCOM"
    <<75,111,110,97,109,105>>,  \* "Konami"
    <<75,111,110,97,109,105,32,68,105,103,105,116,97,108,32,69,110,116,101,114,116,97,105,110,109,101,110,116>>,  \* "Konami Digital Entertainment"
    <<83,69,71,65>>,  \* "SEGA"
    <<83,101,103,97>>,  \* "Sega"
    <<65,116,108,117,115>>,  \* "Atlus"
    <<65,84,76,85,83>>,  \* "ATLUS"
    <<75,111,101,105,32,84,101,99,109,111>>,  \* "Koei Tecmo"
    <<75,111,101,105,32,84,101,99,109,111,32,71,97,109,101,115>>,  \* "Koei Tecmo Games"
    <<79,109,101,103,97,32,70,111,114,99,101>>,  \* "Omega Force"
    <<84,101,97,109,32,78,105,110,106,97>>,  \* "Team Ninja"
    <<76,101,118,101,108,45,53>>,  \* "Level-5"
    <<76,101,118,101,108,53>>,  \* "Level5"
    <<70,114,111,109,83,111,102,116,119,97,114,101>>,  \* "FromSoftware"
    <<70,114,111,109,32,83,111,102,116,119,97,114,101>>,  \* "From Software"
    <<80,108,97,116,105,110,117,109,71,97,109,101,115>>,  \* "PlatinumGames"
    <<80,108,97,116,105,110,117,109,32,71,97,109,101,115>>,  \* "Platinum Games"
    <<70,97,108,99,111,109>>,  \* "Falcom"
    <<78,105,104,111,110,32,70,97,108,99,111,109>>,  \* "Nihon Falcom"
    <<78,73,83>>,  \* "NIS"
    <<78,105,112,112,111,110,32,73,99,104,105,32,83,111,102,116,119,97,114,101>>,  \* "Nippon Ichi Software"
    <<65,114,99,32,83,121,115,116,101,109,32,87,111,114,107,115>>,  \* "Arc System Works"
    <<83,112,105,107,101,32,67,104,117,110,115,111,102,116>>,  \* "Spike Chunsoft"
    <<71,114,97,115,115,104,111,112,112,101,114,32,77,97,110,117,102,97,99,116,117,114,101>>,  \* "Grasshopper Manufacture"
    <<86,97,110,105,108,108,97,119,97,114,101>>,  \* "Vanillaware"
    <<71,97,109,101,32,70,114,101,97,107>>,  \* "Game Freak"
    <<72,65,76,32,76,97,98,111,114,97,116,111,114,121>>,  \* "HAL Laboratory"
    <<73,110,116,101,108,108,105,103,101,110,116,32,83,121,115,116,101,109,115>>,  \* "Intelligent Systems"
    <<77,111,110,111,108,105,116,104,32,83,111,102,116>>,  \* "Monolith Soft"
    <<82,101,116,114,111,32,83,116,117,100,105,111,115>>,  \* "Retro Studios"
    <<85,98,105,115,111,102,116>>,  \* "Ubisoft"
    <<85,98,105,115,111,102,116,32,77,111,110,116,114,101,97,108>>,  \* "Ubisoft Montreal"
    <<85,98,105,115,111,102,116,32,80,97,114,105,115>>,  \* "Ubisoft Paris"
    <<69,108,101,99,116,114,111,110,105,99,32,65,114,116,115>>,  \* "Electronic Arts"
    <<69,65>>,  \* "EA"
    <<69,65,32,83,112,111,114,116,115>>,  \* "EA Sports"
    <<65,99,116,105,118,105,115,105,111,110>>,  \* "Activision"
    <<65,99,116,105,118,105,115,105,111,110,32,66,108,105,122,122,97,114,100>>,  \* "Activision Blizzard"
    <<66,108,105,122,122,97,114,100>>,  \* "Blizzard"
    <<66,108,105,122,122,97,114,100,32,69,110,116,101,114,116,97,105,110,109,101,110,116>>,  \* "Blizzard Entertainment"
    <<66,101,116,104,101,115,100,97>>,  \* "Bethesda"
    <<66,101,116,104,101,115,100,97,32,71,97,109,101,32,83,116,117,100,105,111,115>>,  \* "Bethesda Game Studios"
    <<66,101,116,104,101,115,100,97,32,83,111,102,116,119,111,114,107,115>>,  \* "Bethesda Softworks"
    <<50,75,32,71,97,109,101,115>>,  \* "2K Games"
    <<50,75>>,  \* "2K"
    <<70,105,114,97,120,105,115,32,71,97,109,101,115>>,  \* "Firaxis Games"
    <<82,111,99,107,115,116,97,114,32,71,97,109,101,115>>,  \* "Rockstar Games"
    <<82,111,99,107,115,116,97,114,32,78,111,114,116,104>>,  \* "Rockstar North"
    <<87,97,114,110,101,114,32,66,114,111,115>>,  \* "Warner Bros"
    <<87,66,32,71,97,109,101,115>>,  \* "WB Games"
    <<67,68,32,80,114,111,106,101,107,116>>,  \* "CD Projekt"
    <<67,68,32,80,114,111,106,101,107,116,32,82,101,100>>,  \* "CD Projekt Red"
    <<68,101,118,111,108,118,101,114,32,68,105,103,105,116,97,108>>,  \* "Devolver Digital"
    <<53,48,53,32,71,97,109,101,115>>,  \* "505 Games"
    <<84,72,81,32,78,111,114,100,105,99>>,  \* "THQ Nordic"
    <<84,101,97,109,32,67,104,101,114,114,121>>,  \* "Team Cherry"
    <<83,117,112,101,114,103,105,97,110,116,32,71,97,109,101,115>>,  \* "Supergiant Games"
    <<77,111,111,110,32,83,116,117,100,105,111,115>>,  \* "Moon Studios"
    <<89,97,99,104,116,32,67,108,117,98,32,71,97,109,101,115>>,  \* "Yacht Club Games"
    <<77,111,116,105,111,110,32,84,119,105,110>>,  \* "Motion Twin"
    <<67,111,110,99,101,114,110,101,100,65,112,101>>   \* "ConcernedApe"
  }

\* NOTABLE_DEVELOPERS of api/index.py
API_NOTABLE_DEVELOPERS ==
  {
    <<78,105,110,116,101,110,100,111>>,  \* "Nintendo"
    <<78,105,110,116,101,110,100,111,32,69,80,68>>,  \* "Nintendo EPD"
    <<78,105,110,116,101,110,100,111,32,69,65,68>>,  \* "Nintendo EAD"
    <<83,113,117,97,114,101,32,69,110,105,120>>,  \* "Square Enix"
    <<83,113,117,97,114,101>>,  \* "Square"
    <<69,110,105,120>>,  \* "Enix"
    <<66,97,110,100,97,105,32,78,97,109,99,111>>,  \* "Bandai Namco"
    <<66,97,110,100,97,105,32,78,97,109,99,111,32,69,110,116,101,114,116,97,105,110,109,101,110,116>>,  \* "Bandai Namco Entertainment"
    <<66,97,110,100,97,105,32,78,97,109,99,111,32,83,116,117,100,105,111,115>>,  \* "Bandai Namco Studios"
    <<67,97,112,99,111,109>>,  \* "Capcom"
    <<67,65,80,67,79,77>>,  \* "CAPCOM"
    <<75,111,110,97,109,105>>,  \* "Konami"
    <<75,111,110,97,109,105,32,68,105,103,105,116,97,108,32,69,110,116,101,114,116,97,105,110,109,101,110,116>>,  \* "Konami Digital Entertainment"
    <<83,69,71,65>>,  \* "SEGA"
    <<83,101,103,97>>,  \* "Sega"
    <<65,116,108,117,115>>,  \* "Atlus"
    <<65,84,76,85,83>>,  \* "ATLUS"
    <<75,111,101,105,32,84,101,99,109,111>>,  \* "Koei Tecmo"
    <<75,111,101,105,32,84,101,99,109,111,32,71,97,109,101,115>>,  \* "Koei Tecmo Games"
    <<79,109,101,103,97,32,70,111,114,99,101>>,  \* "Omega Force"
    <<84,101,97,109,32,78,105,110,106,97>>,  \* "Team Ninja"
    <<76,101,118,101,108,45,53>>,  \* "Level-5"
    <<76,101,118,101,108,53>>,  \* "Level5"
    <<70,114,111,109,83,111,102,116,119,97,114,101>>,  \* "FromSoftware"
    <<70,114,111,109,32,83,111,102,116,119,97,114,101>>,  \* "From Software"
    <<80,108,97,116,105,110,117,109,71,97,109,101,115>>,  \* "PlatinumGames"
    <<80,108,97,116,105,110,117,109,32,71,97,109,101,115>>,  \* "Platinum Games"
    <<70,97,108,99,111,109>>,  \* "Falcom"
    <<78,105,104,111,110,32,70,97,108,99,111,109>>,  \* "Nihon Falcom"
    <<78,73,83>>,  \* "NIS"
    <<78,105,112,112,111,110,32,73,99,104,105,32,83,111,102,116,119,97,114,101>>,  \* "Nippon Ichi Software"
    <<65,114,99,32,83,121,115,116,101,109,32,87,111,114,107,115>>,  \* "Arc System Works"
    <<83,112,105,107,101,32,67,104,117,110,115,111,102,116>>,  \* "Spike Chunsoft"
    <<71,114,97,115,115,104,111,112,112,101,114,32,77,97,110,117,102,97,99,116,117,114,101>>,  \* "Grasshopper Manufacture"
    <<86,97,110,105,108,108,97,119,97,114,101>>,  \* "Vanillaware"
    <<71,97,109,101,32,70,114,101,97,107>>,  \* "Game Freak"
    <<72,65,76,32,76,97,98,111,114,97,116,111,114,121>>,  \* "HAL Laboratory"
    <<73,110,116,101,108,108,105,103,101,110,116,32,83,121,115,116,101,109,115>>,  \* "Intelligent Systems"
    <<77,111,110,111,108,105,116,104,32,83,111,102,116>>,  \* "Monolith Soft"
    <<82,101,116,114,111,32,83,116,117,100,105,111,115>>,  \* "Retro Studios"
    <<85,98,105,115,111,102,116>>,  \* "Ubisoft"
    <<85,98,105,115,111,102,116,32,77,111,110,116,114,101,97,108>>,  \* "Ubisoft Montreal"
    <<85,98,105,115,111,102,116,32,80,97,114,105,115>>,  \* "Ubisoft Paris"
    <<69,108,101,99,116,114,111,110,105,99,32,65,114,116,115>>,  \* "Electronic Arts"
    <<69,65>>,  \* "EA"
    <<69,65,32,83,112,111,114,116,115>>,  \* "EA Sports"
    <<65,99,116,105,118,105,115,105,111,110>>,  \* "Activision"
    <<65,99,116,105,118,105,115,105,111,110,32,66,108,105,122,122,97,114,100>>,  \* "Activision Blizzard"
    <<66,108,105,122,122,97,114,100>>,  \* "Blizzard"
    <<66,108,105,122,122,97,114,100,32,69,110,116,101,114,116,97,105,110,109,101,110,116>>,  \* "Blizzard Entertainment"
    <<66,101,116,104,101,115,100,97>>,  \* "Bethesda"
    <<66,101,116,104,101,115,100,97,32,71,97,109,101,32,83,116,117,100,105,111,115>>,  \* "Bethesda Game Studios"
    <<66,101,116,104,101,115,100,97,32,83,111,102,116,119,111,114,107,115>>,  \* "Bethesda Softworks"
    <<50,75,32,71,97,109,101,115>>,  \* "2K Games"
    <<50,75>>,  \* "2K"
    <<70,105,114,97,120,105,115,32,71,97,109,101,115>>,  \* "Firaxis Games"
    <<82,111,99,107,115,116,97,114,32,71,97,109,101,115>>,  \* "Rockstar Games"
    <<82,111,99,107,115,116,97,114,32,78,111,114,116,104>>,  \* "Rockstar North"
    <<87,97,114,110,101,114,32,66,114,111,115>>,  \* "Warner Bros"
    <<87,66,32,71,97,109,101,115>>,  \* "WB Games"
    <<67,68,32,80,114,111,106,101,107,116>>,  \* "CD Projekt"
    <<67,68,32,80,114,111,106,101,107,116,32,82,101,100>>,  \* "CD Projekt Red"
    <<68,101,118,111,108,118,101,114,32,68,105,103,105,116,97,108>>,  \* "Devolver Digital"
    <<53,48,53,32,71,97,109,101,115>>,  \* "505 Games"
    <<84,72,81,32,78,111,114,100,105,99>>,  \* "THQ Nordic"
    <<84,101,97,109,32,67,104,101,114,114,121>>,  \* "Team Cherry"
    <<83,117,112,101,114,103,105,97,110,116,32,71,97,109,101,115>>,  \* "Supergiant Games"
    <<77,111,111,110,32,83,116,117,100,105,111,115>>,  \* "Moon Studios"
    <<89,97,99,104,116,32,67,108,117,98,32,71,97,109,101,115>>,  \* "Yacht Club Games"
    <<77,111,116,105,111,110,32,84,119,105,110>>,  \* "Motion Twin"
    <<67,111,110,99,101,114,110,101,100,65,112,101>>   \* "ConcernedApe"
  }

\* the hypes threshold
NOTABLE_HYPES_THRESHOLD == 10
API_NOTABLE_HYPES_THRESHOLD == 10

\* the field hypes of a game record: absent, null, or an integer
HAbsent == [k |-> "absent", v |-> 0]
HNull == [k |-> "null", v |-> 0]
HInt(n) == [k |-> "int", v |-> n]

\* the field company of an involvement entry: absent, a bare identifier
\* (the company was not expanded), or a record with or without a name
CAbsent == [k |-> "absent", hasName |-> FALSE, name |-> <<>>]
CId == [k |-> "id", hasName |-> FALSE, name |-> <<>>]
CNoName == [k |-> "dict", hasName |-> FALSE, name |-> <<>>]
CNamed(s) == [k |-> "dict", hasName |-> TRUE, name |-> s]

\* the field involved_companies: absent, or a list of company fields
IAbsent == [present |-> FALSE, list |-> <<>>]
IList(l) == [present |-> TRUE, list |-> l]

\* game.get("hypes") or 0
HypesOrZero(h) == IF h.k = "int" THEN h.v ELSE 0

\* game.get("involved_companies", [])
InvolvedOrEmpty(inv) == IF inv.present THEN inv.list ELSE <<>>

\* ic.get("company", {}):  isinstance(company, dict)
IsDict(company) == company.k \in {"absent", "dict"}

\* company.get("name", "")
CompanyName(company) == IF company.hasName THEN company.name ELSE <<>>

\* the first letters of the words of s
Initials(s) ==
    LET idx == {i \in 1..Len(s) : i = 1 \/ s[i - 1] = 32}
    IN  [j \in 1..Cardinality(idx) |->
            s[CHOOSE i \in idx : Cardinality({x \in idx : x < i}) = j - 1]]

\* Matches that also takes a company name made of the initials of an entry
MatchesInitials(notable, company_name) ==
    \/ Contains(Lower(notable), Lower(company_name))
    \/ Contains(Lower(company_name), Lower(notable))
    \/ Lower(Initials(notable)) = Lower(company_name)

\* notable.lower() in company_name.lower() or company_name.lower() in notable.lower()
Matches(notable, company_name) ==
    \/ Contains(Lower(notable), Lower(company_name))
    \/ Contains(Lower(company_name), Lower(notable))

\* the loop over involved_companies and over the allow-list
CompanyLoop(involved, allow) ==
    \E i \in 1..Len(involved) :
        /\ IsDict(involved[i])
        /\ \E notable \in allow : Matches(notable, CompanyName(involved[i]))

\* HypesReached with a strict comparison
HypesReachedStrict(hypes, threshold) == hypes > threshold

\* hypes >= NOTABLE_HYPES_THRESHOLD
HypesReached(hypes, threshold) == hypes >= threshold

\* is_notable_game of server.py
is_notable_game(game) ==
    IF HypesReached(HypesOrZero(game.hypes), NOTABLE_HYPES_THRESHOLD) THEN TRUE
    ELSE CompanyLoop(InvolvedOrEmpty(game.involved), NOTABLE_DEVELOPERS)

\* is_notable_game of api/index.py
api_is_notable_game(game) ==
    IF HypesReached(HypesOrZero(game.hypes), API_NOTABLE_HYPES_THRESHOLD) THEN TRUE
    ELSE CompanyLoop(InvolvedOrEmpty(game.involved), API_NOTABLE_DEVELOPERS)

\* longest involved_companies list
MaxCompanies == 2
\* largest hype count
MaxHypes == 11

\* "Indie Dev", "EA Sports Inc.", "EA", "Electronic Arts Inc.", "nintendo co., ltd.", "Squ", "Tea Zq", "Zq Jv", "", "INTELLIGENT SYSTEMS"
CompanyNames ==
  { <<73,110,100,105,101,32,68,101,118>>,
    <<69,65,32,83,112,111,114,116,115,32,73,110,99,46>>,
    <<69,65>>,
    <<69,108,101,99,116,114,111,110,105,99,32,65,114,116,115,32,73,110,99,46>>,
    <<110,105,110,116,101,110,100,111,32,99,111,46,44,32,108,116,100,46>>,
    <<83,113,117>>,
    <<84,101,97,32,90,113>>,
    <<90,113,32,74,118>>,
    <<>>,
    <<73,78,84,69,76,76,73,71,69,78,84,32,83,89,83,84,69,77,83>> }

Companies == {CAbsent, CId, CNoName} \cup {CNamed(s) : s \in CompanyNames}

HypesValues == {HAbsent, HNull} \cup {HInt(n) : n \in {0, 1} \cup (8..MaxHypes)}

Games ==
    [hypes : HypesValues,
     involved : {IAbsent} \cup {IList(l) : l \in SeqsUpTo(Companies, MaxCompanies)}]

IdleN ==
    /\ n_pc = "idle" /\ n_impl = "server"
    /\ n_game = [hypes |-> HAbsent, involved |-> IAbsent] /\ n_result = FALSE

\* convert_game of server.py calls is_notable_game(game)
NotableServer ==
    /\ n_pc = "call"
    /\ n_impl = "server"
    /\ n_result' = is_notable_game(n_game)
    /\ n_pc' = "returned"
    /\ UNCHANGED <<n_impl, n_game>>

\* convert_game of api/index.py calls is_notable_game(game)
NotableApi ==
    /\ n_pc = "call"
    /\ n_impl = "api"
    /\ n_result' = api_is_notable_game(n_game)
    /\ n_pc' = "returned"
    /\ UNCHANGED <<n_impl, n_game>>

IdleM ==
    /\ m_pc = "idle" /\ m_notable = <<>> /\ m_company = <<>> /\ m_result = FALSE

\* one evaluation of the condition of the inner loop of is_notable_game
MatchTest ==
    /\ m_pc = "call"
    /\ m_result' = Matches(m_notable, m_company)
    /\ m_pc' = "returned"
    /\ UNCHANGED <<m_notable, m_company>>

----------------------------------------------------------------------------
(* The credit-detail fetchers (detail_fetcher.py) and the detail lookup    *)
(* (server.py get_game_detail, api/index.py handle_get_detail)             *)

(* JSON values inside the object a model answers with.  A value is a       *)
(* record [t, s, l]: t the JSON type, s the text of a string, l the        *)
(* elements of a list of strings.                                          *)
VAbsent == [t |-> "absent", s |-> <<>>, l |-> <<>>]   \* the key is missing
VNull == [t |-> "null", s |-> <<>>, l |-> <<>>]
VStr(s) == [t |-> "str", s |-> s, l |-> <<>>]
VList(l) == [t |-> "list", s |-> <<>>, l |-> l]

\* VGet that ignores the default
VGetNoDefault(v, default) == v

\* dict.get(key, default)
VGet(v, default) == IF v.t = "absent" THEN default ELSE v

\* Python truth value:  null, "" and [] are false
VTruthy(v) == (v.t = "str" /\ v.s # <<>>) \/ (v.t = "list" /\ v.l # <<>>)

\* an element of a role array: an object with the keys name and known_for
\* (each possibly missing), or something that is not an object
CreditEntry(name, known_for) == [kind |-> "obj", name |-> name, known_for |-> known_for]
NonDictEntry == [kind |-> "other", name |-> VAbsent, known_for |-> VAbsent]

\* the value under a role key: missing, null, a string, or a list of entries
RAbsent == [t |-> "absent", items |-> <<>>]
RNull == [t |-> "null", items |-> <<>>]
RStr == [t |-> "str", items |-> <<>>]           \* a non-empty string
RList(items) == [t |-> "list", items |-> items]

\* the object of an answer
Roles == {"directors", "writers", "composers", "producers"}
RoleOf(key) ==
    CASE key = "directors" -> "director"
      [] key = "writers" -> "writer"
      [] key = "composers" -> "composer"
      [] key = "producers" -> "producer"

EmptyObject ==
    [directors |-> RAbsent, writers |-> RAbsent, composers |-> RAbsent,
     producers |-> RAbsent, series |-> VAbsent, related_games |-> VAbsent,
     highlights |-> VAbsent]

(* The text of an answer to a detail request, as a sequence of tokens:     *)
(*   prose, fence_json, fence   as for the translator                      *)
(*   lbr, rbr      [ and ] outside every object                            *)
(*   lbrace        the { that opens a top-level object                     *)
(*   members       the members of that object (with every brace nested in  *)
(*                 them); the token carries the members as a value         *)
(*   rbrace        the } that closes it                                    *)
(*   scalar        a JSON scalar (a number, null, a quoted string)         *)
(*   comma         a comma between two elements of a top-level array       *)
DTok(k) == [k |-> k, obj |-> EmptyObject]
MembersTok(o) == [k |-> "members", obj |-> o]

\* the text  { members }
ObjectText(o) ==
    IF o = EmptyObject THEN <<DTok("lbrace"), DTok("rbrace")>>
    ELSE <<DTok("lbrace"), MembersTok(o), DTok("rbrace")>>

IsObjectText(c) ==
    \/ (Len(c) = 2 /\ c[1].k = "lbrace" /\ c[2].k = "rbrace")
    \/ (Len(c) = 3 /\ c[1].k = "lbrace" /\ c[2].k = "members" /\ c[3].k = "rbrace")

\* c[i..] is a comma-separated, non-empty list of scalars and objects
RECURSIVE IsElements(_, _)
IsElements(c, i) ==
    LET n == IF i > Len(c) THEN 0
             ELSE IF c[i].k = "scalar" THEN 1
             ELSE IF i + 1 <= Len(c) /\ IsObjectText(SubSeq(c, i, i + 1)) THEN 2
             ELSE IF i + 2 <= Len(c) /\ IsObjectText(SubSeq(c, i, i + 2)) THEN 3
             ELSE 0
    IN  /\ n > 0
        /\ \/ i + n = Len(c) + 1
           \/ (i + n <= Len(c) /\ c[i + n].k = "comma" /\ IsElements(c, i + n + 1))

\* json.loads(text): ok = FALSE is a JSONDecodeError; otherwise the value
\* is an object (isDict, with its members) or something else
DetailLoads(c) ==
    IF IsObjectText(c)
    THEN [ok |-> TRUE, isDict |-> TRUE,
          obj |-> IF Len(c) = 3 THEN c[2].obj ELSE EmptyObject]
    ELSE IF \/ (Len(c) = 1 /\ c[1].k = "scalar")
            \/ (Len(c) = 2 /\ c[1].k = "lbr" /\ c[2].k = "rbr")
            \/ (/\ Len(c) >= 3 /\ c[1].k = "lbr" /\ c[Len(c)].k = "rbr"
                /\ IsElements(SubSeq(c, 2, Len(c) - 1), 1))
    THEN [ok |-> TRUE, isDict |-> FALSE, obj |-> EmptyObject]
    ELSE [ok |-> FALSE, isDict |-> FALSE, obj |-> EmptyObject]

\* start = content.find("{"); end = content.rfind("}") + 1;
\* if start != -1 and end > start: content = content[start:end]
SliceBraces(c) ==
    LET start == FindFrom(c, {"lbrace"}, 1)
        end == RFind(c, {"rbrace"})
    IN  IF start # 0 /\ end >= start THEN SubSeq(c, start, end) ELSE c

\* OpenAIDetailFetcher.fetch parses the text as it is after the fences
NoSlice(c) == c

\* GameCredit(name, role, known_for)
GameCredit(name, role, known_for) ==
    [name |-> name, role |-> role, known_for |-> known_for]

\* GameDetails(name=game_name): the fields fetch and the lookup use, with
\* the defaults of the dataclass
GameDetails(name) ==
    [name |-> name, directors |-> <<>>, writers |-> <<>>, composers |-> <<>>,
     producers |-> <<>>, series |-> VStr(<<>>), related_games |-> VList(<<>>),
     highlights |-> VList(<<>>)]

\* what fetch returns: None, or a GameDetails
None == [isNone |-> TRUE, v |-> GameDetails(<<>>)]
Some(details) == [isNone |-> FALSE, v |-> details]

\* DoubaoDetailFetcher.fetch:  if d.get("name"):
DoubaoKeeps(entry) == VTruthy(entry.name)

\* OpenAIDetailFetcher.fetch appends every entry
OpenAIKeeps(entry) == TRUE

\* the test an entry passes to become a credit, in the fetch of a fetcher
Keeps(fetcher, entry) ==
    IF fetcher = "doubao" THEN DoubaoKeeps(entry) ELSE OpenAIKeeps(entry)

\* the extraction a fetch applies to the text after the fences
Slice(fetcher, c) ==
    IF fetcher = "doubao" THEN SliceBraces(c) ELSE NoSlice(c)

\* GameCredit(name=d.get("name", ""), role=..., known_for=d.get("known_for", []))
CreditOf(entry, role) ==
    GameCredit(VGet(entry.name, VStr(<<>>)), role, VGet(entry.known_for, VList(<<>>)))

\* for d in data.get(key, []): ... details.<key>.append(GameCredit(...))
\* null is not iterable, the elements of a string and an element that is
\* no object have no get()
CreditLoop(arr, role, fetcher) ==
    IF arr.t = "null" THEN Raise("TypeError")
    ELSE IF arr.t = "str" THEN Raise("AttributeError")
    ELSE IF \E i \in 1..Len(arr.items) : arr.items[i].kind # "obj"
    THEN Raise("AttributeError")
    ELSE LET kept == SelectSeq(arr.items, LAMBDA entry : Keeps(fetcher, entry))
         IN  Return([i \in 1..Len(kept) |-> CreditOf(kept[i], role)])

\* the construction of GameDetails from the parsed object
BuildDetails(game_name, data, fetcher) ==
    LET d == CreditLoop(data.directors, "director", fetcher)
        w == CreditLoop(data.writers, "writer", fetcher)
        c == CreditLoop(data.composers, "composer", fetcher)
        p == CreditLoop(data.producers, "producer", fetcher)
    IN  IF d.exc # "none" THEN Raise(d.exc)
        ELSE IF w.exc # "none" THEN Raise(w.exc)
        ELSE IF c.exc # "none" THEN Raise(c.exc)
        ELSE IF p.exc # "none" THEN Raise(p.exc)
        ELSE Return(Some(
               [name |-> game_name,
                directors |-> d.ret, writers |-> w.ret,
                composers |-> c.ret, producers |-> p.ret,
                series |-> VGet(data.series, VStr(<<>>)),
                related_games |-> VGet(data.related_games, VList(<<>>)),
                highlights |-> VGet(data.highlights, VList(<<>>))]))

\* the try block of the fetch of a fetcher
FetchTry(game_name, resp, fetcher) ==
    IF resp.status = "conn_error" THEN Raise("RequestException")
    ELSE IF resp.status = "http_error" THEN Raise("HTTPError")
    ELSE IF resp.status = "bad_body" THEN Raise("ValueError")
    ELSE IF resp.status = "no_choices" THEN Raise("KeyError")
    ELSE IF resp.status = "null_content" THEN Raise("TypeError")
    ELSE LET data == DetailLoads(Slice(fetcher, StripFence(resp.content)))
         IN  IF ~data.ok THEN Raise("JSONDecodeError")
             ELSE IF ~data.isDict THEN Raise("AttributeError")
             ELSE BuildDetails(game_name, data.obj, fetcher)

\* FetchExcept without the last clause (except Exception)
FetchExceptNarrow(o) ==
    IF o.exc \in {"RequestException", "HTTPError", "JSONDecodeError"}
    THEN Return(None)
    ELSE o

\* except requests.RequestException / json.JSONDecodeError / Exception:
\*     return None
FetchExcept(o) == IF o.exc # "none" THEN Return(None) ELSE o

\* DoubaoDetailFetcher.fetch once the response is there
DoubaoFetch(game_name, resp) ==
    FetchExcept(FetchTry(game_name, resp, "doubao"))

\* OpenAIDetailFetcher.fetch once the response is there
OpenAIFetch(game_name, resp) ==
    FetchExcept(FetchTry(game_name, resp, "openai"))

\* the environment: which of ARK_API_KEY, ARK_ENDPOINT_ID, OPENAI_API_KEY
\* are set
Envs == [ark_key : BOOLEAN, ark_endpoint : BOOLEAN, openai_key : BOOLEAN]

\* create_fetcher_from_env
create_fetcher_from_env(env) ==
    IF env.ark_key /\ env.ark_endpoint THEN "doubao"
    ELSE IF env.openai_key THEN "openai"
    ELSE "none"

\* fetcher.fetch(game_name) of the fetcher create_fetcher_from_env returned
Fetch(fetcher, game_name, resp) ==
    IF fetcher = "doubao" THEN DoubaoFetch(game_name, resp)
    ELSE OpenAIFetch(game_name, resp)

\* the optional query parameter fallback_name
NoFallback == [given |-> FALSE, s |-> <<>>]
Fallback(s) == [given |-> TRUE, s |-> s]

\* UsableFallback without the comparison with game_name
UsableFallbackSame(fallback_name, game_name) ==
    fallback_name.given /\ fallback_name.s # <<>>

\* fallback_name and fallback_name != game_name
UsableFallback(fallback_name, game_name) ==
    fallback_name.given /\ fallback_name.s # <<>> /\ fallback_name.s # game_name

\* CreditDicts that lists the credits last to first
CreditDictsReversed(credits) ==
    [i \in 1..Len(credits) |->
        [name |-> credits[Len(credits) + 1 - i].name,
         known_for |-> credits[Len(credits) + 1 - i].known_for]]

\* [{"name": d.name, "known_for": d.known_for} for d in credits]
CreditDicts(credits) ==
    [i \in 1..Len(credits) |->
        [name |-> credits[i].name, known_for |-> credits[i].known_for]]

\* SeriesOrNone without the "or None"
SeriesAsIs(series) == series

\* details.series or None
SeriesOrNone(series) == IF VTruthy(series) THEN series ELSE VNull

\* the body of a detail response
DetailBody(name, directors, writers, composers, producers, series, related_games, highlights) ==
    [name |-> name, directors |-> directors, writers |-> writers,
     composers |-> composers, producers |-> producers, series |-> series,
     related_games |-> related_games, highlights |-> highlights]

\* the body returned when there are no details
EmptyBody(game_name) ==
    DetailBody(game_name, <<>>, <<>>, <<>>, <<>>, VNull, VList(<<>>), VList(<<>>))

\* the body built from a GameDetails
FullBody(details) ==
    DetailBody(details.name,
               CreditDicts(details.directors), CreditDicts(details.writers),
               CreditDicts(details.composers), CreditDicts(details.producers),
               SeriesOrNone(details.series),
               details.related_games, details.highlights)

\* a response of the HTTP layer: the status and, for 200, the body
HttpResponse(status, body) == [status |-> status, body |-> body]
NoBody == EmptyBody(<<>>)

\* the fields of the pydantic model GameDetail accept the body:
\* series: Optional[str], related_games: list[str], highlights: list[str]
\* (name is a str and the credits are lists of dicts by construction)
GameDetailValid(body) ==
    /\ body.series.t \in {"null", "str"}
    /\ body.related_games.t = "list"
    /\ body.highlights.t = "list"

\* server.py get_game_detail from line 289 on: a ValidationError of the
\* response model is not caught and ends the request with status 500
ServerRespond(game_name, details) ==
    IF details.isNone THEN HttpResponse(200, EmptyBody(game_name))
    ELSE IF GameDetailValid(FullBody(details.v))
    THEN HttpResponse(200, FullBody(details.v))
    ELSE HttpResponse(500, NoBody)

\* api/index.py handle_get_detail from line 194 on: plain dicts
ApiRespond(game_name, details) ==
    IF details.isNone THEN HttpResponse(200, EmptyBody(game_name))
    ELSE HttpResponse(200, FullBody(details.v))

\* Respond that always answers under the requested name
RespondRequestedName(impl, game_name, details) ==
    LET r == IF impl = "server" THEN ServerRespond(game_name, details)
             ELSE ApiRespond(game_name, details)
    IN  IF r.status = 200 THEN [r EXCEPT !.body.name = game_name] ELSE r

\* the response of the lookup, built by the handler of the implementation
Respond(impl, game_name, details) ==
    IF impl = "server" THEN ServerRespond(game_name, details)
    ELSE ApiRespond(game_name, details)

\* longest role array in an answer
MaxCredits == 2

PERSON_A == <<65>>     \* "A"
PERSON_B == <<66>>     \* "B"
TITLE_1 == <<84, 49>>  \* "T1"
TITLE_2 == <<84, 50>>  \* "T2"
SERIES_S == <<83>>     \* "S"

\* entries a model may put into a role array
CreditPool ==
    { CreditEntry(VStr(PERSON_A), VList(<<TITLE_1, TITLE_2>>)),
      CreditEntry(VStr(PERSON_B), VAbsent),
      CreditEntry(VStr(<<>>), VList(<<TITLE_1>>)),
      CreditEntry(VAbsent, VList(<<TITLE_2>>)),
      CreditEntry(VNull, VAbsent),
      NonDictEntry }

RoleArrays ==
    {RAbsent, RNull, RStr} \cup {RList(l) : l \in SeqsUpTo(CreditPool, MaxCredits)}

\* values a model may give to series, related_games and highlights
SeriesValues == {VAbsent, VStr(<<>>), VStr(SERIES_S), VNull, VList(<<TITLE_1>>)}
ListValues == {VAbsent, VList(<<>>), VList(<<TITLE_1, TITLE_2>>), VNull, VStr(TITLE_1)}

\* one credit by a person named after the role
OwnCredit(key) ==
    CreditEntry(VStr(<<CASE key = "directors" -> 68 [] key = "writers" -> 87
                         [] key = "composers" -> 67 [] key = "producers" -> 80>>),
                VList(<<TITLE_1>>))
SmallArrays(key) == {RAbsent, RList(<<>>), RList(<<OwnCredit(key)>>)}

\* the objects a model may answer with: one role array of any form; the
\* three other keys of any form; every category supplied, empty or missing
Objects ==
    {[EmptyObject EXCEPT !.directors = a] : a \in RoleArrays}
    \cup {[EmptyObject EXCEPT !.writers = a] : a \in RoleArrays}
    \cup {[EmptyObject EXCEPT !.composers = a] : a \in RoleArrays}
    \cup {[EmptyObject EXCEPT !.producers = a] : a \in RoleArrays}
    \cup [directors : {RAbsent}, writers : {RAbsent}, composers : {RAbsent},
          producers : {RAbsent}, series : SeriesValues,
          related_games : ListValues, highlights : ListValues]
    \cup [directors : SmallArrays("directors"), writers : SmallArrays("writers"),
          composers : SmallArrays("composers"), producers : SmallArrays("producers"),
          series : {VAbsent, VStr(SERIES_S)},
          related_games : {VAbsent, VList(<<TITLE_1, TITLE_2>>)},
          highlights : {VList(<<>>)}]

\* a complete answer
FullObject ==
    [directors |-> RList(<<OwnCredit("directors"), CreditEntry(VStr(PERSON_A), VList(<<TITLE_1, TITLE_2>>))>>),
     writers |-> RList(<<OwnCredit("writers")>>),
     composers |-> RList(<<CreditEntry(VStr(<<>>), VList(<<TITLE_1>>)), OwnCredit("composers")>>),
     producers |-> RList(<<>>),
     series |-> VStr(SERIES_S),
     related_games |-> VList(<<TITLE_1, TITLE_2>>),
     highlights |-> VList(<<TITLE_2>>)]

\* the ways a model wraps (or spoils) the object
ObjectWrappings(o) ==
    LET t == ObjectText(o) IN
    { t,
      <<DTok("fence_json")>> \o t \o <<DTok("fence")>>,
      <<DTok("fence")>> \o t \o <<DTok("fence")>>,
      <<DTok("prose"), DTok("fence_json")>> \o t \o <<DTok("fence"), DTok("prose")>>,
      <<DTok("fence_json")>> \o t,
      <<DTok("prose")>> \o t \o <<DTok("prose")>>,
      <<DTok("lbr")>> \o t \o <<DTok("rbr")>>,
      <<DTok("lbr")>> \o t \o <<DTok("comma"), DTok("scalar"), DTok("rbr")>>,
      <<DTok("lbr")>> \o t \o <<DTok("comma")>> \o t \o <<DTok("rbr")>>,
      <<DTok("lbr"), DTok("scalar"), DTok("comma"), DTok("scalar"), DTok("rbr")>>,
      SubSeq(t, 1, Len(t) - 1),
      t \o <<DTok("prose"), DTok("rbrace")>>,
      <<DTok("rbrace"), DTok("lbrace")>>,
      <<DTok("lbr"), DTok("rbr")>>,
      <<DTok("prose")>>,
      <<DTok("scalar")>>,
      <<>> }

\* the answers to the request for the primary name
PrimaryAnswers ==
    Failures
    \cup {Response("ok", ObjectText(o)) : o \in Objects}
    \cup {Response("ok", c) : c \in ObjectWrappings(FullObject) \cup ObjectWrappings(EmptyObject)}

\* the answers to the request for the fallback name
FallbackAnswers ==
    { Response("conn_error", <<>>),
      Response("ok", <<DTok("prose")>>),
      Response("ok", ObjectText(EmptyObject)),
      Response("ok", ObjectText(FullObject)),
      Response("ok", ObjectText([EmptyObject EXCEPT !.related_games = VNull])) }

\* the names a lookup is made with
LookupNames == {NameAt(1), ZH}
FallbackNames == {NoFallback, Fallback(<<>>), Fallback(NameAt(1)), Fallback(ZH)}

IdleD ==
    /\ d_pc = "idle" /\ d_impl = "server"
    /\ d_env = [ark_key |-> FALSE, ark_endpoint |-> FALSE, openai_key |-> FALSE]
    /\ d_name = <<>> /\ d_fallback = NoFallback
    /\ d_sent = <<>> /\ d_answers = <<>>
    /\ d_details = None /\ d_response = HttpResponse(0, NoBody)

\* create_fetcher_from_env() returned None: 503, nothing is sent
LookupUnavailable ==
    /\ d_pc = "call"
    /\ create_fetcher_from_env(d_env) = "none"
    /\ d_response' = HttpResponse(503, NoBody)
    /\ d_pc' = "returned"
    /\ UNCHANGED <<d_impl, d_env, d_name, d_fallback, d_sent, d_answers, d_details>>

\* details = fetcher.fetch(game_name): the request is posted
FetchPrimary ==
    /\ d_pc = "call"
    /\ create_fetcher_from_env(d_env) # "none"
    /\ d_sent' = Append(d_sent, d_name)
    /\ d_pc' = "await_primary"
    /\ UNCHANGED <<d_impl, d_env, d_name, d_fallback, d_answers, d_details, d_response>>

\* the rest of a fetch from the response on; an exception leaving fetch
\* ends the request with status 500
Receive(game_name, answers, done) ==
    \E resp \in answers :
        LET o == Fetch(create_fetcher_from_env(d_env), game_name, resp)
        IN  /\ d_answers' = Append(d_answers, resp)
            /\ IF o.exc = "none"
               THEN /\ d_details' = o.ret
                    /\ d_pc' = done
                    /\ UNCHANGED d_response
               ELSE /\ d_response' = HttpResponse(500, NoBody)
                    /\ d_pc' = "raised"
                    /\ UNCHANGED d_details

\* fetch(game_name) returns
ReceivePrimary ==
    /\ d_pc = "await_primary"
    /\ Receive(d_name, PrimaryAnswers, "primary_done")
    /\ UNCHANGED <<d_impl, d_env, d_name, d_fallback, d_sent>>

\* if not details and fallback_name and fallback_name != game_name:
\*     details = fetcher.fetch(fallback_name): the request is posted
FetchFallback ==
    /\ d_pc = "primary_done"
    /\ d_details.isNone /\ UsableFallback(d_fallback, d_name)
    /\ d_sent' = Append(d_sent, d_fallback.s)
    /\ d_pc' = "await_fallback"
    /\ UNCHANGED <<d_impl, d_env, d_name, d_fallback, d_answers, d_details, d_response>>

\* fetch(fallback_name) returns
ReceiveFallback ==
    /\ d_pc = "await_fallback"
    /\ Receive(d_fallback.s, FallbackAnswers, "fallback_done")
    /\ UNCHANGED <<d_impl, d_env, d_name, d_fallback, d_sent>>

\* the response is built from details
LookupRespond ==
    /\ \/ d_pc = "fallback_done"
       \/ (d_pc = "primary_done" /\ ~(d_details.isNone /\ UsableFallback(d_fallback, d_name)))
    /\ d_response' = Respond(d_impl, d_name, d_details)
    /\ d_pc' = "returned"
    /\ UNCHANGED <<d_impl, d_env, d_name, d_fallback, d_sent, d_answers, d_details>>

----------------------------------------------------------------------------
(* The games-by-month listing (server.py get_games, api/index.py           *)
(* handle_get_games)                                                       *)

\* an optional string: the field name of a catalog record (missing or a
\* string), the field name_cn of a listing entry (None or a string)
NoName == [given |-> FALSE, s |-> <<>>]
Name(s) == [given |-> TRUE, s |-> s]

\* a catalog record: its identifier and its name (the other fields are
\* converted field by field, independently of the localized name)
GameRecord(id, name) == [id |-> id, name |-> name]

\* g.get("name")  (as a truth value)
HasName(game) == game.name.given /\ game.name.s # <<>>

\* game.get("name", default)
NameOr(game, default) == IF game.name.given THEN game.name.s ELSE default

\* [g.get("name", "") for g in games if g.get("name")]
EnglishNames(games) ==
    LET named == SelectSeq(games, HasName)
    IN  [i \in 1..Len(named) |-> NameOr(named[i], <<>>)]

\* CnName that keeps a localized name equal to the name
CnNameKeepSame(cn_names, game) ==
    LET en_name == NameOr(game, <<>>)
    IN  IF en_name \in DOMAIN cn_names THEN Name(cn_names[en_name]) ELSE NoName

\* en_name = game.get("name", ""); cn_name = cn_names.get(en_name);
\* if cn_name == en_name: cn_name = None
CnName(cn_names, game) ==
    LET en_name == NameOr(game, <<>>)
    IN  IF en_name \in DOMAIN cn_names /\ cn_names[en_name] # en_name
        THEN Name(cn_names[en_name])
        ELSE NoName

UNKNOWN == <<85, 110, 107, 110, 111, 119, 110>>   \* "Unknown"

\* convert_game(game, cn_name): id, name, name_cn
convert_game(game, cn_name) ==
    [id |-> game.id, name |-> NameOr(game, UNKNOWN), name_cn |-> cn_name]

\* the loop that builds game_list
GameList(games, cn_names) ==
    [i \in 1..Len(games) |-> convert_game(games[i], CnName(cn_names, games[i]))]

\* the response of the listing: status, and for 200 the list of games
ListingResponse(status, games) == [status |-> status, games |-> games]

\* longest list the catalog returns
MaxGames == 3

\* the names a catalog record may have
CatalogNames == {NoName, Name(<<>>), Name(NameAt(1)), Name(NameAt(2))}

\* what get_upcoming_games returns: records numbered in catalog order
\* (the empty list also when the catalog request fails)
Catalogs ==
    {[i \in 1..Len(ns) |-> GameRecord(i, ns[i])] : ns \in SeqsUpTo(CatalogNames, MaxGames)}

\* what translate_game_names may return for a list of names: a mapping
\* with exactly these names as keys, each to itself or to a translation
Translations(names) ==
    [Range(names) -> {NameAt(1), NameAt(2), ZH}]

IdleL ==
    /\ l_pc = "idle" /\ l_impl = "server" /\ l_client = FALSE
    /\ l_translate = FALSE /\ l_games = <<>> /\ l_calls = <<>>
    /\ l_cn_names = <<>> /\ l_response = ListingResponse(0, <<>>)

\* no catalog client: 503, nothing is requested
ListingUnavailable ==
    /\ l_pc = "call"
    /\ ~l_client
    /\ l_response' = ListingResponse(503, <<>>)
    /\ l_pc' = "returned"
    /\ UNCHANGED <<l_impl, l_client, l_translate, l_games, l_calls, l_cn_names>>

\* games = igdb_client.get_upcoming_games(...)
CatalogReturns ==
    /\ l_pc = "call"
    /\ l_client
    /\ l_games' \in Catalogs
    /\ l_pc' = "catalog_done"
    /\ UNCHANGED <<l_impl, l_client, l_translate, l_calls, l_cn_names, l_response>>

\* if translate and games: translate_game_names(english_names) is called
TranslateCall ==
    /\ l_pc = "catalog_done"
    /\ l_translate /\ l_games # <<>>
    /\ l_calls' = Append(l_calls, EnglishNames(l_games))
    /\ l_pc' = "await_translation"
    /\ UNCHANGED <<l_impl, l_client, l_translate, l_games, l_cn_names, l_response>>

\* cn_names = translate_game_names(english_names) returns
TranslateReturns ==
    /\ l_pc = "await_translation"
    /\ l_cn_names' \in Translations(l_calls[Len(l_calls)])
    /\ l_pc' = "translated"
    /\ UNCHANGED <<l_impl, l_client, l_translate, l_games, l_calls, l_response>>

\* the loop over games and the response (cn_names is {} without a call)
ListingRespond ==
    /\ IF l_translate /\ l_games # <<>>
       THEN l_pc = "translated" ELSE l_pc = "catalog_done"
    /\ l_response' = ListingResponse(200, GameList(l_games, l_cn_names))
    /\ l_pc' = "returned"
    /\ UNCHANGED <<l_impl, l_client, l_translate, l_games, l_calls, l_cn_names>>

----------------------------------------------------------------------------
(* The company extractor get_companies (server.py, api/index.py, main.py)  *)

\* an involvement entry: its role flags (a missing flag is false) and its
\* field company
Involvement(developer, publisher, company) ==
    [developer |-> developer, publisher |-> publisher, company |-> company]

\* role == "developer" and ic.get("developer"), or
\* role == "publisher" and ic.get("publisher")
Flagged(ic, role) ==
    \/ (role = "developer" /\ ic.developer)
    \/ (role = "publisher" /\ ic.publisher)

\* the entries whose company name the loop appends to companies
Appended(ic, role) == Flagged(ic, role) /\ IsDict(ic.company)

\* ", ".join(companies)
RECURSIVE Join(_)
Join(companies) ==
    IF companies = <<>> THEN <<>>
    ELSE IF Len(companies) = 1 THEN companies[1]
    ELSE companies[1] \o <<44, 32>> \o Join(Tail(companies))

\* the list companies after the loop
CompaniesOf(involved, role) ==
    LET picked == SelectSeq(involved, LAMBDA ic : Appended(ic, role))
    IN  [i \in 1..Len(picked) |-> CompanyName(picked[i].company)]

\* the body of get_companies, sentinel being what it returns for no data
GetCompanies(game, role, sentinel) ==
    IF InvolvedOrEmpty(game.involved) = <<>> THEN sentinel
    ELSE LET companies == CompaniesOf(InvolvedOrEmpty(game.involved), role)
         IN  IF companies # <<>> THEN Name(Join(companies)) ELSE sentinel

\* get_companies of server.py
get_companies(game, role) == GetCompanies(game, role, NoName)

\* get_companies of api/index.py
api_get_companies(game, role) == GetCompanies(game, role, NoName)

\* get_companies of main.py
cli_get_companies(game, role) == GetCompanies(game, role, Name(<<45>>))

\* longest involved_companies list given to get_companies
MaxInvolved == 2

COMPANY_A == <<65, 99, 109, 101>>      \* "Acme"
COMPANY_B == <<66, 32, 67, 111>>       \* "B Co"

Involvements ==
    {Involvement(dev, pub, c) :
        dev \in BOOLEAN, pub \in BOOLEAN,
        c \in {CAbsent, CId, CNoName, CNamed(COMPANY_A), CNamed(COMPANY_B)}}

InvolvedGames ==
    [involved : {IAbsent} \cup {IList(l) : l \in SeqsUpTo(Involvements, MaxInvolved)}]

IdleG ==
    /\ g_pc = "idle" /\ g_impl = "server" /\ g_role = "developer"
    /\ g_game = [involved |-> IAbsent] /\ g_result = NoName

\* convert_game of server.py calls get_companies(game, role)
CompaniesServer ==
    /\ g_pc = "call" /\ g_impl = "server"
    /\ g_result' = get_companies(g_game, g_role)
    /\ g_pc' = "returned"
    /\ UNCHANGED <<g_impl, g_role, g_game>>

\* convert_game of api/index.py calls get_companies(game, role)
CompaniesApi ==
    /\ g_pc = "call" /\ g_impl = "api"
    /\ g_result' = api_get_companies(g_game, g_role)
    /\ g_pc' = "returned"
    /\ UNCHANGED <<g_impl, g_role, g_game>>

\* the table of main.py calls get_companies(game, role)
CompaniesCli ==
    /\ g_pc = "call" /\ g_impl = "cli"
    /\ g_result' = cli_get_companies(g_game, g_role)
    /\ g_pc' = "returned"
    /\ UNCHANGED <<g_impl, g_role, g_game>>

----------------------------------------------------------------------------
(* The genre extractor get_genres (server.py, api/index.py, main.py)       *)

\* an entry of the field genres: a bare identifier (the genre was not
\* expanded), or a record whose name is missing, null or a string
GId == [k |-> "id", name |-> "absent", s |-> <<>>]
GNoName == [k |-> "dict", name |-> "absent", s |-> <<>>]
GNullName == [k |-> "dict", name |-> "null", s |-> <<>>]
GNamed(s) == [k |-> "dict", name |-> "str", s |-> s]

\* the field genres: absent, null, or a list of entries
GenresAbsent == [k |-> "absent", list |-> <<>>]
GenresNull == [k |-> "null", list |-> <<>>]
GenresList(l) == [k |-> "list", list |-> l]

\* genres = game.get("genres", []);  not genres
NoGenres(genres) == genres.k # "list" \/ genres.list = <<>>

\* isinstance(g, dict) and g.get("name")
GenreKept(g) == g.k = "dict" /\ g.name = "str" /\ g.s # <<>>

\* the body of get_genres of server.py and api/index.py
GenreNames(game) ==
    IF NoGenres(game.genres) THEN Return(<<>>)
    ELSE LET kept == SelectSeq(game.genres.list, GenreKept)
         IN  Return([i \in 1..Len(kept) |-> kept[i].s])

\* get_genres of server.py
get_genres(game) == GenreNames(game)

\* get_genres of api/index.py
api_get_genres(game) == GenreNames(game)

\* get_genres of main.py: ", ".join(g.get("name", "") for g in genres if
\* isinstance(g, dict)); join raises TypeError on a name that is None
cli_get_genres(game) ==
    IF NoGenres(game.genres) THEN Return(<<45>>)
    ELSE LET kept == SelectSeq(game.genres.list, LAMBDA g : g.k = "dict")
         IN  IF \E i \in 1..Len(kept) : kept[i].name = "null"
             THEN Raise("TypeError")
             ELSE Return(Join([i \in 1..Len(kept) |-> kept[i].s]))

\* longest genres list given to get_genres
MaxGenres == 2

GENRE_A == <<82, 80, 71>>                  \* "RPG"
GENRE_B == <<80, 117, 122, 122, 108, 101>> \* "Puzzle"

GenreEntries ==
    {GId, GNoName, GNullName, GNamed(<<>>), GNamed(GENRE_A), GNamed(GENRE_B)}

GenreGames ==
    [genres : {GenresAbsent, GenresNull}
              \cup {GenresList(l) : l \in SeqsUpTo(GenreEntries, MaxGenres)}]

IdleX ==
    /\ x_pc = "idle" /\ x_impl = "server"
    /\ x_game = [genres |-> GenresAbsent] /\ x_result = <<>>

\* what a call of get_genres leaves behind
GenresCall(o) ==
    /\ x_pc' = IF o.exc = "none" THEN "returned" ELSE "raised"
    /\ x_result' = IF o.exc = "none" THEN o.ret ELSE <<>>
    /\ UNCHANGED <<x_impl, x_game>>

\* convert_game of server.py calls get_genres(game)
GenresServer ==
    /\ x_pc = "call" /\ x_impl = "server"
    /\ GenresCall(get_genres(x_game))

\* convert_game of api/index.py calls get_genres(game)
GenresApi ==
    /\ x_pc = "call" /\ x_impl = "api"
    /\ GenresCall(api_get_genres(x_game))

\* the table of main.py calls get_genres(game)
GenresCli ==
    /\ x_pc = "call" /\ x_impl = "cli"
    /\ GenresCall(cli_get_genres(x_game))

----------------------------------------------------------------------------
(* IGDBClient.get_upcoming_games: the release-date interval of the query   *)

\* datetime.MINYEAR, datetime.MAXYEAR
MINYEAR == 1
MAXYEAR == 9999
\* date(1970, 1, 1).toordinal()
EPOCH_ORDINAL == 719163
\* IGDBClient.PLATFORM_SWITCH, the default of limit
PLATFORM_SWITCH == 130
DEFAULT_LIMIT == 50

\* year is a leap year (proleptic Gregorian calendar)
IsLeap(year) == year % 4 = 0 /\ (year % 100 # 0 \/ year % 400 = 0)

\* the number of days before 1 January of year
DaysBeforeYear(year) ==
    LET y == year - 1
    IN  y * 365 + (y \div 4) - (y \div 100) + (y \div 400)

\* the number of days of the year before the first day of month
DaysBeforeMonth(year, month) ==
    <<0, 31, 59, 90, 120, 151, 181, 212, 243, 273, 304, 334>>[month]
    + (IF month > 2 /\ IsLeap(year) THEN 1 ELSE 0)

\* datetime(year, month, 1, tzinfo=timezone.utc): ValueError outside
\* MINYEAR..MAXYEAR and 1..12, otherwise the ordinal of the day
FirstOfMonth(year, month) ==
    IF year < MINYEAR \/ year > MAXYEAR \/ month < 1 \/ month > 12
    THEN Raise("ValueError")
    ELSE Return(DaysBeforeYear(year) + DaysBeforeMonth(year, month) + 1)

\* int(d.timestamp()) of a midnight in UTC: 86400 * days since the epoch;
\* kept as the number of days and the seconds into the day, the product
\* being beyond the integers of the model checker
Timestamp(ordinal) == [days |-> ordinal - EPOCH_ORDINAL, seconds |-> 0]

\* no query
NoQuery ==
    [platform |-> 0, lower_op |-> "", lower |-> Timestamp(EPOCH_ORDINAL),
     upper_op |-> "", upper |-> Timestamp(EPOCH_ORDINAL), sort |-> "", limit |-> 0]

\* where platforms = (platform_id) & first_release_date >= start_ts
\*     & first_release_date < end_ts; sort first_release_date asc; limit
Query(platform_id, start_ts, end_ts, limit) ==
    [platform |-> platform_id, lower_op |-> ">=", lower |-> start_ts,
     upper_op |-> "<", upper |-> end_ts, sort |-> "first_release_date asc",
     limit |-> limit]

\* if month == 12: datetime(year + 1, 1, 1) else: datetime(year, month + 1, 1)
EndDate(year, month) ==
    IF month = 12 THEN FirstOfMonth(year + 1, 1) ELSE FirstOfMonth(year, month + 1)

\* get_upcoming_games up to the call of _request: the query, or the
\* exception raised on the way
UpcomingQuery(platform_id, year, month, limit, now) ==
    LET y == IF year # 0 THEN year ELSE now[1]
        m == IF month # 0 THEN month ELSE now[2]
        start_date == FirstOfMonth(y, m)
    IN  IF start_date.exc # "none" THEN start_date
        ELSE LET end_date == EndDate(y, m)
             IN  IF end_date.exc # "none" THEN end_date
                 ELSE Return(Query(platform_id, Timestamp(start_date.ret),
                                   Timestamp(end_date.ret), limit))

\* the years and months get_upcoming_games is called with, and the clock
QueryYears ==
    {0, 1, 4, 100, 400, 1600, 1899, 1900, 1969, 1970, 1971, 1999, 2000,
     2023, 2024, 2025, 2037, 2038, 2100, 9998, 9999, 10000}
QueryMonths == 0..13
Clocks == {<<2024, 2>>, <<2025, 12>>}

IdleQ ==
    /\ q_pc = "idle" /\ q_year = 0 /\ q_month = 0
    /\ q_now = <<2024, 2>> /\ q_query = NoQuery

\* get_upcoming_games(platform_id=PLATFORM_SWITCH, year, month, limit)
\* builds the query and hands it to _request
UpcomingGamesQuery ==
    /\ q_pc = "call"
    /\ LET o == UpcomingQuery(PLATFORM_SWITCH, q_year, q_month, DEFAULT_LIMIT, q_now)
       IN  /\ o.exc = "none"
           /\ q_query' = o.ret
           /\ q_pc' = "requested"
    /\ UNCHANGED <<q_year, q_month, q_now>>

\* datetime(...) raised ValueError: the exception leaves get_upcoming_games
UpcomingGamesRaises ==
    /\ q_pc = "call"
    /\ UpcomingQuery(PLATFORM_SWITCH, q_year, q_month, DEFAULT_LIMIT, q_now).exc # "none"
    /\ q_pc' = "raised"
    /\ UNCHANGED <<q_year, q_month, q_now, q_query>>

----------------------------------------------------------------------------
(* IGDBClient.authenticate and IGDBClient._request                         *)

\* the field access_token: None, or a string
NoToken == [given |-> FALSE, s |-> <<>>]
Token(s) == [given |-> TRUE, s |-> s]

\* self.access_token as a truth value
HasToken(token) == token.given /\ token.s # <<>>

TOKEN_1 == <<116, 49>>      \* "t1"
TOKEN_2 == <<116, 50>>      \* "t2"

\* what the token endpoint does when asked: the request fails
\* (RequestException), a status that raise_for_status rejects, a token in
\* a JSON object, a JSON object without access_token, one with an empty
\* access_token, JSON that is not an object
AuthBehaviours ==
    {"conn_error", "http_error", "token", "no_token", "empty_token", "not_dict"}

\* what the catalog does when asked: the request fails, or it answers
\* requests that carry the valid token and rejects the others (401)
CatalogBehaviours == {"conn_error", "up"}

\* the two services during one call: the token endpoint issues the token
\* the catalog accepts
Environments ==
    [auth : AuthBehaviours, catalog : CatalogBehaviours, valid : {TOKEN_1, TOKEN_2}]

\* the games the catalog answers with
CATALOG == <<GameRecord(1, Name(NameAt(1))), GameRecord(2, Name(NameAt(2)))>>

\* a posted request: to the token endpoint, or to the catalog with
\* "Authorization: Bearer {self.access_token}"
AuthRequest == [to |-> "auth", bearer |-> NoToken]
CatalogRequest(token) == [to |-> "catalog", bearer |-> token]

\* authenticate(): what it returns or raises, and the access_token after it
Authenticate(env, token) ==
    IF env.auth \in {"conn_error", "http_error"}
    THEN [exc |-> "none", ret |-> FALSE, token |-> token]
    ELSE IF env.auth = "not_dict"
    THEN [exc |-> "AttributeError", ret |-> FALSE, token |-> token]
    ELSE [exc |-> "none", ret |-> TRUE,
          token |-> CASE env.auth = "token" -> Token(env.valid)
                      [] env.auth = "empty_token" -> Token(<<>>)
                      [] OTHER -> NoToken]

\* the try block of _request: response.raise_for_status(); return
\* response.json(), and [] on RequestException
CatalogAnswer(env, bearer) ==
    IF env.catalog = "up" /\ bearer = Token(env.valid) THEN CATALOG ELSE <<>>

\* longest sequence of calls made on a client
MaxCalls == 3

IdleC ==
    /\ c_pc = "idle" /\ c_impl = "server" /\ c_token = NoToken
    /\ c_env = [auth |-> "conn_error", catalog |-> "conn_error", valid |-> TOKEN_1]
    /\ c_log = <<>> /\ c_calls = 0 /\ c_result = <<>>

\* the token that outlives a call: the client of server.py is the global
\* igdb_client of the process, the client of api/index.py is a local
\* variable of handle_get_games, made by create_client_from_env() for
\* each request
Kept(token) == IF c_impl = "api" THEN NoToken ELSE token

\* _request: if not self.access_token: self.authenticate() -- the token
\* request is posted
RequestAuthenticates ==
    /\ c_pc = "ready" /\ c_calls < MaxCalls
    /\ ~HasToken(c_token)
    /\ c_env' \in Environments
    /\ c_log' = Append(c_log, AuthRequest)
    /\ c_pc' = "auth"
    /\ UNCHANGED <<c_impl, c_token, c_calls, c_result>>

\* _request with a token held: the catalog request is posted
RequestWithToken ==
    /\ c_pc = "ready" /\ c_calls < MaxCalls
    /\ HasToken(c_token)
    /\ c_env' \in Environments
    /\ c_log' = Append(c_log, CatalogRequest(c_token))
    /\ c_pc' = "catalog"
    /\ UNCHANGED <<c_impl, c_token, c_calls, c_result>>

\* authenticate() returned False: return []
AuthFails ==
    /\ c_pc = "auth"
    /\ Authenticate(c_env, c_token).exc = "none"
    /\ ~Authenticate(c_env, c_token).ret
    /\ c_result' = <<>>
    /\ c_calls' = c_calls + 1
    /\ c_token' = Kept(c_token)
    /\ c_pc' = "ready"
    /\ UNCHANGED <<c_impl, c_env, c_log>>

\* authenticate() returned True: the catalog request is posted
AuthSucceeds ==
    /\ c_pc = "auth"
    /\ Authenticate(c_env, c_token).exc = "none"
    /\ Authenticate(c_env, c_token).ret
    /\ c_token' = Authenticate(c_env, c_token).token
    /\ c_log' = Append(c_log, CatalogRequest(c_token'))
    /\ c_pc' = "catalog"
    /\ UNCHANGED <<c_impl, c_env, c_calls, c_result>>

\* data.get("access_token") on a value that is not a dict: the exception
\* leaves authenticate and _request
AuthRaises ==
    /\ c_pc = "auth"
    /\ Authenticate(c_env, c_token).exc # "none"
    /\ c_pc' = "raised"
    /\ UNCHANGED <<c_impl, c_token, c_env, c_log, c_calls, c_result>>

\* the catalog request returns: the games, or [] on RequestException
CatalogResponds ==
    /\ c_pc = "catalog"
    /\ c_result' = CatalogAnswer(c_env, c_log[Len(c_log)].bearer)
    /\ c_calls' = c_calls + 1
    /\ c_token' = Kept(c_token)
    /\ c_pc' = "ready"
    /\ UNCHANGED <<c_impl, c_env, c_log>>

----------------------------------------------------------------------------
(* handler.do_GET of api/index.py                                          *)

\* path.startswith(prefix), path.endswith(suffix)
StartsWith(path, prefix) ==
    Len(path) >= Len(prefix) /\ SubSeq(path, 1, Len(prefix)) = prefix
EndsWith(path, suffix) ==
    Len(path) >= Len(suffix)
    /\ SubSeq(path, Len(path) - Len(suffix) + 1, Len(path)) = suffix

PATH_GAMES == <<47, 97, 112, 105, 47, 103, 97, 109, 101, 115>>               \* "/api/games"
PATH_GAMES_SLASH == <<47, 97, 112, 105, 47, 103, 97, 109, 101, 115, 47>>        \* "/api/games/"
SUFFIX_DETAIL == <<47, 100, 101, 116, 97, 105, 108>>           \* "/detail"

\* the branch of do_GET a path takes
Route(path) ==
    IF path = PATH_GAMES \/ path = PATH_GAMES_SLASH THEN "games"
    ELSE IF StartsWith(path, PATH_GAMES_SLASH) /\ EndsWith(path, SUFFIX_DETAIL)
    THEN "detail"
    ELSE "other"

\* a response as the handler functions return it: (data, status)
Answer(body, status) == [body |-> body, status |-> status]

\* handle_get_games(params): 503 without a client; int() of a year that
\* is no number raises ValueError
HandleGetGames(env, year) ==
    IF ~env.igdb THEN Return(Answer("unavailable", 503))
    ELSE IF year = "text" THEN Raise("ValueError")
    ELSE Return(Answer("games", 200))

\* handle_get_detail(game_name, params): 503 without a fetcher
HandleGetDetail(env) ==
    IF ~env.llm THEN Return(Answer("unavailable", 503))
    ELSE Return(Answer("detail", 200))

\* the try block of do_GET
Dispatch(path, env, year) ==
    CASE Route(path) = "games" -> HandleGetGames(env, year)
      [] Route(path) = "detail" -> HandleGetDetail(env)
      [] OTHER -> Return(Answer("not_found", 404))

\* except Exception as e: data, status = {"error": str(e)}, 500
DispatchOrError(path, env, year) ==
    LET o == Dispatch(path, env, year)
    IN  IF o.exc = "none" THEN o.ret ELSE Answer("exception", 500)

\* the paths requested
Paths ==
    { PATH_GAMES, PATH_GAMES_SLASH,
      <<47, 97, 112, 105, 47, 103, 97, 109, 101, 115, 47, 71, 97, 47, 100, 101, 116, 97, 105, 108>>,       \* "/api/games/Ga/detail"
      <<47, 97, 112, 105, 47, 103, 97, 109, 101, 115, 47, 100, 101, 116, 97, 105, 108>>,       \* "/api/games/detail"
      <<47, 97, 112, 105, 47, 103, 97, 109, 101, 115, 47, 71, 97>>,       \* "/api/games/Ga"
      <<47, 97, 112, 105, 47, 103, 97, 109, 101, 115, 120>>,       \* "/api/gamesx"
      <<47, 97, 112, 105, 47, 111, 116, 104, 101, 114, 47, 100, 101, 116, 97, 105, 108>>,       \* "/api/other/detail"
      <<47>> }      \* "/"

HandlerEnvs == [igdb : BOOLEAN, llm : BOOLEAN]

IdleH ==
    /\ h_pc = "idle" /\ h_path = <<>> /\ h_year = "absent"
    /\ h_env = [igdb |-> FALSE, llm |-> FALSE]
    /\ h_wire = 0 /\ h_status = 0 /\ h_body = ""

\* do_GET: self.send_response(200) and the headers, then the branch of the
\* path; the body is written after end_headers()
DoGet(route) ==
    /\ h_pc = "request"
    /\ Route(h_path) = route
    /\ Dispatch(h_path, h_env, h_year).exc = "none"
    /\ h_wire' = 200
    /\ h_status' = DispatchOrError(h_path, h_env, h_year).status
    /\ h_body' = DispatchOrError(h_path, h_env, h_year).body
    /\ h_pc' = "answered"
    /\ UNCHANGED <<h_path, h_year, h_env>>

\* GET /api/games
DoGetGames == DoGet("games")

\* GET /api/games/{name}/detail
DoGetDetail == DoGet("detail")

\* GET of any other path
DoGetOther == DoGet("other")

\* do_GET when the branch raises: the except clause builds the answer
DoGetRaises ==
    /\ h_pc = "request"
    /\ Dispatch(h_path, h_env, h_year).exc # "none"
    /\ h_wire' = 200
    /\ h_status' = DispatchOrError(h_path, h_env, h_year).status
    /\ h_body' = DispatchOrError(h_path, h_env, h_year).body
    /\ h_pc' = "answered"
    /\ UNCHANGED <<h_path, h_year, h_env>>

----------------------------------------------------------------------------
(* Specifications                                                          *)

InitBatch ==
    /\ b_pc = "call" /\ b_names \in BatchLists /\ b_response = NoResponse
    /\ b_requests = 0 /\ b_result = <<>>
    /\ IdleT /\ IdleN /\ IdleM /\ IdleD /\ IdleL /\ IdleG /\ IdleX /\ IdleQ /\ IdleC /\ IdleH

InitTranslate ==
    /\ t_pc = "call" /\ configured \in BOOLEAN /\ english_names \in InputLists
    /\ batch_start = 0 /\ all_results = <<>> /\ sent = <<>> /\ responses = <<>>
    /\ IdleB /\ IdleN /\ IdleM /\ IdleD /\ IdleL /\ IdleG /\ IdleX /\ IdleQ /\ IdleC /\ IdleH

\* the translator: one call of _translate_batch on a batch with any answer,
\* or one call of translate_game_names on a list
InitTranslator == InitBatch \/ InitTranslate

NextTranslator ==
    \/ (BatchEmpty /\ UNCHANGED <<t_vars, n_vars, m_vars, d_vars, l_vars, g_vars, x_vars, q_vars, c_vars, h_vars>>)
    \/ (BatchRequest /\ UNCHANGED <<t_vars, n_vars, m_vars, d_vars, l_vars, g_vars, x_vars, q_vars, c_vars, h_vars>>)
    \/ (TranslateNoConfig /\ UNCHANGED <<b_vars, n_vars, m_vars, d_vars, l_vars, g_vars, x_vars, q_vars, c_vars, h_vars>>)
    \/ (TranslateEmpty /\ UNCHANGED <<b_vars, n_vars, m_vars, d_vars, l_vars, g_vars, x_vars, q_vars, c_vars, h_vars>>)
    \/ (TranslateBegin /\ UNCHANGED <<b_vars, n_vars, m_vars, d_vars, l_vars, g_vars, x_vars, q_vars, c_vars, h_vars>>)
    \/ (SendBatch /\ UNCHANGED <<b_vars, n_vars, m_vars, d_vars, l_vars, g_vars, x_vars, q_vars, c_vars, h_vars>>)
    \/ (ReceiveBatch /\ UNCHANGED <<b_vars, n_vars, m_vars, d_vars, l_vars, g_vars, x_vars, q_vars, c_vars, h_vars>>)

SpecTranslator == InitTranslator /\ [][NextTranslator]_vars

InitNotable ==
    /\ n_pc = "call" /\ n_impl \in {"server", "api"} /\ n_game \in Games
    /\ n_result = FALSE
    /\ IdleT /\ IdleB /\ IdleM /\ IdleD /\ IdleL /\ IdleG /\ IdleX /\ IdleQ /\ IdleC /\ IdleH

NextNotable ==
    \/ (NotableServer /\ UNCHANGED <<t_vars, b_vars, m_vars, d_vars, l_vars, g_vars, x_vars, q_vars, c_vars, h_vars>>)
    \/ (NotableApi /\ UNCHANGED <<t_vars, b_vars, m_vars, d_vars, l_vars, g_vars, x_vars, q_vars, c_vars, h_vars>>)

SpecNotable == InitNotable /\ [][NextNotable]_vars

\* the allow-list entries of the two files, and two names the lists do not
\* hold in this spelling
MatchEntries ==
    NOTABLE_DEVELOPERS \cup API_NOTABLE_DEVELOPERS
    \cup {<<101, 97>>, <<69, 65, 32, 83, 80, 79, 82, 84, 83>>}   \* "ea", "EA SPORTS"

InitMatch ==
    /\ m_pc = "call" /\ m_notable \in MatchEntries /\ m_company \in CompanyNames
    /\ m_result = FALSE
    /\ IdleT /\ IdleB /\ IdleN /\ IdleD /\ IdleL /\ IdleG /\ IdleX /\ IdleQ /\ IdleC /\ IdleH

NextMatch == MatchTest /\ UNCHANGED <<t_vars, b_vars, n_vars, d_vars, l_vars, g_vars, x_vars, q_vars, c_vars, h_vars>>

SpecMatch == InitMatch /\ [][NextMatch]_vars

InitDetail ==
    /\ d_pc = "call" /\ d_impl \in {"server", "api"} /\ d_env \in Envs
    /\ d_name \in LookupNames /\ d_fallback \in FallbackNames
    /\ d_sent = <<>> /\ d_answers = <<>>
    /\ d_details = None /\ d_response = HttpResponse(0, NoBody)
    /\ IdleT /\ IdleB /\ IdleN /\ IdleM /\ IdleL /\ IdleG /\ IdleX /\ IdleQ /\ IdleC /\ IdleH

NextDetail ==
    \/ (LookupUnavailable /\ UNCHANGED <<t_vars, b_vars, n_vars, m_vars, l_vars, g_vars, x_vars, q_vars, c_vars, h_vars>>)
    \/ (FetchPrimary /\ UNCHANGED <<t_vars, b_vars, n_vars, m_vars, l_vars, g_vars, x_vars, q_vars, c_vars, h_vars>>)
    \/ (ReceivePrimary /\ UNCHANGED <<t_vars, b_vars, n_vars, m_vars, l_vars, g_vars, x_vars, q_vars, c_vars, h_vars>>)
    \/ (FetchFallback /\ UNCHANGED <<t_vars, b_vars, n_vars, m_vars, l_vars, g_vars, x_vars, q_vars, c_vars, h_vars>>)
    \/ (ReceiveFallback /\ UNCHANGED <<t_vars, b_vars, n_vars, m_vars, l_vars, g_vars, x_vars, q_vars, c_vars, h_vars>>)
    \/ (LookupRespond /\ UNCHANGED <<t_vars, b_vars, n_vars, m_vars, l_vars, g_vars, x_vars, q_vars, c_vars, h_vars>>)

SpecDetail == InitDetail /\ [][NextDetail]_vars


InitListing ==
    /\ l_pc = "call" /\ l_impl \in {"server", "api"} /\ l_client \in BOOLEAN
    /\ l_translate \in BOOLEAN /\ l_games = <<>> /\ l_calls = <<>>
    /\ l_cn_names = <<>> /\ l_response = ListingResponse(0, <<>>)
    /\ IdleT /\ IdleB /\ IdleN /\ IdleM /\ IdleD /\ IdleG /\ IdleX /\ IdleQ /\ IdleC /\ IdleH

NextListing ==
    \/ (ListingUnavailable /\ UNCHANGED <<t_vars, b_vars, n_vars, m_vars, d_vars, g_vars, x_vars, q_vars, c_vars, h_vars>>)
    \/ (CatalogReturns /\ UNCHANGED <<t_vars, b_vars, n_vars, m_vars, d_vars, g_vars, x_vars, q_vars, c_vars, h_vars>>)
    \/ (TranslateCall /\ UNCHANGED <<t_vars, b_vars, n_vars, m_vars, d_vars, g_vars, x_vars, q_vars, c_vars, h_vars>>)
    \/ (TranslateReturns /\ UNCHANGED <<t_vars, b_vars, n_vars, m_vars, d_vars, g_vars, x_vars, q_vars, c_vars, h_vars>>)
    \/ (ListingRespond /\ UNCHANGED <<t_vars, b_vars, n_vars, m_vars, d_vars, g_vars, x_vars, q_vars, c_vars, h_vars>>)

SpecListing == InitListing /\ [][NextListing]_vars

InitCompanies ==
    /\ g_pc = "call" /\ g_impl \in {"server", "api", "cli"}
    /\ g_role \in {"developer", "publisher"} /\ g_game \in InvolvedGames
    /\ g_result = NoName
    /\ IdleT /\ IdleB /\ IdleN /\ IdleM /\ IdleD /\ IdleL /\ IdleX /\ IdleQ /\ IdleC /\ IdleH

NextCompanies ==
    \/ (CompaniesServer /\ UNCHANGED <<t_vars, b_vars, n_vars, m_vars, d_vars, l_vars, x_vars, q_vars, c_vars, h_vars>>)
    \/ (CompaniesApi /\ UNCHANGED <<t_vars, b_vars, n_vars, m_vars, d_vars, l_vars, x_vars, q_vars, c_vars, h_vars>>)
    \/ (CompaniesCli /\ UNCHANGED <<t_vars, b_vars, n_vars, m_vars, d_vars, l_vars, x_vars, q_vars, c_vars, h_vars>>)

SpecCompanies == InitCompanies /\ [][NextCompanies]_vars

InitGenres ==
    /\ x_pc = "call" /\ x_impl \in {"server", "api", "cli"}
    /\ x_game \in GenreGames /\ x_result = <<>>
    /\ IdleT /\ IdleB /\ IdleN /\ IdleM /\ IdleD /\ IdleL /\ IdleG /\ IdleQ /\ IdleC /\ IdleH

NextGenres ==
    \/ (GenresServer /\ UNCHANGED <<t_vars, b_vars, n_vars, m_vars, d_vars, l_vars, g_vars, q_vars, c_vars, h_vars>>)
    \/ (GenresApi /\ UNCHANGED <<t_vars, b_vars, n_vars, m_vars, d_vars, l_vars, g_vars, q_vars, c_vars, h_vars>>)
    \/ (GenresCli /\ UNCHANGED <<t_vars, b_vars, n_vars, m_vars, d_vars, l_vars, g_vars, q_vars, c_vars, h_vars>>)

SpecGenres == InitGenres /\ [][NextGenres]_vars

InitQuery ==
    /\ q_pc = "call" /\ q_year \in QueryYears /\ q_month \in QueryMonths
    /\ q_now \in Clocks /\ q_query = NoQuery
    /\ IdleT /\ IdleB /\ IdleN /\ IdleM /\ IdleD /\ IdleL /\ IdleG /\ IdleX /\ IdleC /\ IdleH

NextQuery ==
    \/ (UpcomingGamesQuery /\ UNCHANGED <<t_vars, b_vars, n_vars, m_vars, d_vars, l_vars, g_vars, x_vars, c_vars, h_vars>>)
    \/ (UpcomingGamesRaises /\ UNCHANGED <<t_vars, b_vars, n_vars, m_vars, d_vars, l_vars, g_vars, x_vars, c_vars, h_vars>>)

SpecQuery == InitQuery /\ [][NextQuery]_vars

InitClient ==
    /\ c_pc = "ready" /\ c_impl \in {"server", "api"} /\ c_token = NoToken
    /\ c_env = [auth |-> "conn_error", catalog |-> "conn_error", valid |-> TOKEN_1]
    /\ c_log = <<>> /\ c_calls = 0 /\ c_result = <<>>
    /\ IdleT /\ IdleB /\ IdleN /\ IdleM /\ IdleD /\ IdleL /\ IdleG /\ IdleX /\ IdleQ /\ IdleH

NextClient ==
    \/ (RequestAuthenticates /\ UNCHANGED <<t_vars, b_vars, n_vars, m_vars, d_vars, l_vars, g_vars, x_vars, q_vars, h_vars>>)
    \/ (RequestWithToken /\ UNCHANGED <<t_vars, b_vars, n_vars, m_vars, d_vars, l_vars, g_vars, x_vars, q_vars, h_vars>>)
    \/ (AuthFails /\ UNCHANGED <<t_vars, b_vars, n_vars, m_vars, d_vars, l_vars, g_vars, x_vars, q_vars, h_vars>>)
    \/ (AuthSucceeds /\ UNCHANGED <<t_vars, b_vars, n_vars, m_vars, d_vars, l_vars, g_vars, x_vars, q_vars, h_vars>>)
    \/ (AuthRaises /\ UNCHANGED <<t_vars, b_vars, n_vars, m_vars, d_vars, l_vars, g_vars, x_vars, q_vars, h_vars>>)
    \/ (CatalogResponds /\ UNCHANGED <<t_vars, b_vars, n_vars, m_vars, d_vars, l_vars, g_vars, x_vars, q_vars, h_vars>>)

SpecClient == InitClient /\ [][NextClient]_vars

InitHandler ==
    /\ h_pc = "request" /\ h_path \in Paths
    /\ h_year \in {"absent", "number", "text"} /\ h_env \in HandlerEnvs
    /\ h_wire = 0 /\ h_status = 0 /\ h_body = ""
    /\ IdleT /\ IdleB /\ IdleN /\ IdleM /\ IdleD /\ IdleL /\ IdleG /\ IdleX /\ IdleQ /\ IdleC

NextHandler ==
    \/ (DoGetGames /\ UNCHANGED <<t_vars, b_vars, n_vars, m_vars, d_vars, l_vars, g_vars, x_vars, q_vars, c_vars>>)
    \/ (DoGetDetail /\ UNCHANGED <<t_vars, b_vars, n_vars, m_vars, d_vars, l_vars, g_vars, x_vars, q_vars, c_vars>>)
    \/ (DoGetOther /\ UNCHANGED <<t_vars, b_vars, n_vars, m_vars, d_vars, l_vars, g_vars, x_vars, q_vars, c_vars>>)
    \/ (DoGetRaises /\ UNCHANGED <<t_vars, b_vars, n_vars, m_vars, d_vars, l_vars, g_vars, x_vars, q_vars, c_vars>>)

SpecHandler == InitHandler /\ [][NextHandler]_vars

----------------------------------------------------------------------------
(* Properties of the translator (SpecTranslator)                           *)

\* the array the code reads from an answer (<<>> when it reads none)
ParsedItems(resp) ==
    IF resp.status # "ok" THEN <<>>
    ELSE LET p == JsonLoads(SliceBrackets(StripFence(resp.content)))
         IN  IF p.ok /\ p.isList THEN p.items ELSE <<>>

\* the call for a batch failed: no answer, or no array in the answer
Failed(resp) ==
    \/ resp.status # "ok"
    \/ LET p == JsonLoads(SliceBrackets(StripFence(resp.content)))
       IN  ~p.ok \/ ~p.isList

\* en names the input name n: the same string, or the same string once case
\* and surrounding blanks are ignored
NameMatches(en, n) == en = n \/ Strip(Lower(en)) = Strip(Lower(n))

\* the positions of the triples of an array that are about the name n
TriplesFor(items, n) ==
    {i \in 1..Len(items) :
        /\ items[i].kind = "obj"
        /\ items[i].en.t = "str"
        /\ NameMatches(items[i].en.s, n)}

\* sure is set: present and true in Python's sense
SureSet(v) == v.t \notin {"absent", "null", "false"} /\ v # Str(<<>>)

\* a triple that is accepted for the name n
AcceptedFor(t, n) ==
    /\ t.kind = "obj"
    /\ SureSet(t.sure)
    /\ t.en.t = "str" /\ t.en.s # <<>>
    /\ t.cn.t = "str" /\ t.cn.s # <<>>
    /\ \E i \in 1..Len(t.cn.s) : t.cn.s[i] \in 19968..40959
    /\ NameMatches(t.en.s, n)

\* the k-th batch of the input (k = 1, 2, ...): positions 5(k-1)+1 .. 5k
BatchK(k) ==
    LET n == Len(english_names)
        lo == 5 * (k - 1)
        hi == IF 5 * k < n THEN 5 * k ELSE n
    IN  [i \in 1..(hi - lo) |-> english_names[lo + i]]

\* the last batch that holds the name n
LastBatchOf(n) ==
    CHOOSE k \in 1..Len(responses) :
        /\ n \in Range(BatchK(k))
        /\ \A j \in (k + 1)..Len(responses) : n \notin Range(BatchK(j))

InSomeBatch(n) == \E k \in 1..Len(responses) : n \in Range(BatchK(k))

NoRepeats(names) ==
    \A i, j \in 1..Len(names) : names[i] = names[j] => i = j

\* C1: the mapping returned by translate_game_names (and by
\* _translate_batch) has exactly the input names as its keys, whatever the
\* endpoint answered for each batch: no name is missing and no key is added.
C1_KeySetIsInputSet ==
    /\ t_pc = "returned" => DOMAIN all_results = Range(english_names)
    /\ b_pc = "returned" => DOMAIN b_result = Range(b_names)

\* three batches: one call failed, one answer named a game that is not in
\* the input, one translation was accepted
C1_Witness ==
    /\ t_pc = "returned" /\ configured /\ Len(responses) = 3
    /\ \E i \in 1..3 : responses[i].status = "conn_error"
    /\ \E j \in 1..3 : \E x \in 1..Len(ParsedItems(responses[j])) :
          /\ ParsedItems(responses[j])[x].en = Str(Unknown)
          /\ AcceptedFor(ParsedItems(responses[j])[x], Unknown)
    /\ \E n \in DOMAIN all_results : all_results[n] # n

\* C2: neither translate_game_names nor _translate_batch lets an exception
\* out: every call ends by returning, whatever the endpoint does.
C2_NeverRaises == t_pc # "raised" /\ b_pc # "raised"

\* a triple with a field of the wrong type raised inside the try block and
\* the call still returned a mapping
C2_Witness ==
    /\ b_pc = "returned" /\ b_names # <<>>
    /\ TryBlock(b_names, b_response).exc \in {"TypeError", "AttributeError"}
    /\ DOMAIN b_result = Range(b_names)

\* C3: every input name has an entry, and the entry differs from the name
\* only if the answer for the name's batch holds a triple accepted for it
\* (sure set, en and cn not empty, a CJK ideograph in cn, en matching the
\* name); otherwise the value is the name.
C3_IdentityUnlessAccepted ==
    /\ b_pc = "returned" =>
         \A n \in Range(b_names) :
            /\ n \in DOMAIN b_result
            /\ b_result[n] # n =>
                 \E i \in 1..Len(ParsedItems(b_response)) :
                    AcceptedFor(ParsedItems(b_response)[i], n)
    /\ t_pc = "returned" /\ ~configured =>
         \A n \in Range(english_names) :
            n \in DOMAIN all_results /\ all_results[n] = n
    /\ t_pc = "returned" /\ configured =>
         \A n \in Range(english_names) :
            /\ n \in DOMAIN all_results
            /\ all_results[n] # n =>
                 \E k \in 1..Len(responses) :
                    /\ n \in Range(BatchK(k))
                    /\ \E i \in 1..Len(ParsedItems(responses[k])) :
                          AcceptedFor(ParsedItems(responses[k])[i], n)

\* one answer with a triple that is accepted and a triple that is not: the
\* first name is translated, the other keeps its name
C3_Witness ==
    /\ b_pc = "returned" /\ Len(b_names) >= 2
    /\ \E n, m \in Range(b_names) :
          /\ b_result[n] # n
          /\ b_result[m] = m
          /\ TriplesFor(ParsedItems(b_response), m) # {}

\* the triples about n in this answer are all marked sure: false
MarkedUnsure(resp, n) ==
    LET items == ParsedItems(resp)
    IN  /\ TriplesFor(items, n) # {}
        /\ \A i \in TriplesFor(items, n) : items[i].sure = JFalse

\* C4: a name whose triple is marked sure: false (no other triple of the
\* answer is about that name) keeps its own name in the output, whatever
\* the cn of the triple is.
C4_UnsureIsIdentity ==
    /\ b_pc = "returned" =>
         \A n \in Range(b_names) :
            MarkedUnsure(b_response, n) => n \in DOMAIN b_result /\ b_result[n] = n
    /\ t_pc = "returned" /\ configured =>
         \A n \in Range(english_names) :
            (InSomeBatch(n) /\ MarkedUnsure(responses[LastBatchOf(n)], n))
               => n \in DOMAIN all_results /\ all_results[n] = n

\* the unsure triple carries a proper Chinese name and another name of the
\* same answer is translated
C4_Witness ==
    /\ b_pc = "returned"
    /\ \E n, m \in Range(b_names) :
          /\ MarkedUnsure(b_response, n)
          /\ \E i \in TriplesFor(ParsedItems(b_response), n) :
                ParsedItems(b_response)[i].cn = Str(ZH)
          /\ b_result[n] = n
          /\ b_result[m] # m

\* the triples about n in this answer carry a cn string without any
\* character in U+4E00..U+9FFF, and one of them is marked sure: true
NoIdeograph(resp, n) ==
    LET items == ParsedItems(resp)
    IN  /\ \E i \in TriplesFor(items, n) : items[i].sure = JTrue
        /\ \A i \in TriplesFor(items, n) :
              /\ items[i].cn.t \in {"str", "absent"}
              /\ \A x \in 1..Len(items[i].cn.s) : items[i].cn.s[x] \notin 19968..40959

\* C5: a triple whose cn has no character in U+4E00..U+9FFF is rejected
\* even when sure is true: the matched name keeps its own name.
C5_NoIdeographIsIdentity ==
    /\ b_pc = "returned" =>
         \A n \in Range(b_names) :
            NoIdeograph(b_response, n) => n \in DOMAIN b_result /\ b_result[n] = n
    /\ t_pc = "returned" /\ configured =>
         \A n \in Range(english_names) :
            (InSomeBatch(n) /\ NoIdeograph(responses[LastBatchOf(n)], n))
               => n \in DOMAIN all_results /\ all_results[n] = n

\* a sure triple whose cn is the character just below the block
C5_Witness ==
    /\ b_pc = "returned"
    /\ \E n \in Range(b_names) :
          /\ NoIdeograph(b_response, n)
          /\ \E i \in TriplesFor(ParsedItems(b_response), n) :
                /\ ParsedItems(b_response)[i].cn = Str(BELOW)
                /\ ParsedItems(b_response)[i].sure = JTrue
          /\ b_result[n] = n

\* C6: for a list without repeated names, the names of a batch whose call
\* failed keep their own names, and the names of every batch have the
\* values their own batch gave them.
C6_BatchFailureIsolated ==
    (t_pc = "returned" /\ configured /\ NoRepeats(english_names)) =>
        \A k \in 1..Len(responses) :
           \A n \in Range(BatchK(k)) :
              /\ n \in DOMAIN all_results
              /\ Failed(responses[k]) => all_results[n] = n
              /\ all_results[n] = TranslateBatch(BatchK(k), responses[k]).ret[n]

\* 12 names, the answer for the middle batch cannot be parsed: batches 1
\* and 3 are translated, the 5 names of batch 2 keep their names
C6_Witness ==
    /\ t_pc = "returned" /\ configured /\ NoRepeats(english_names)
    /\ Len(english_names) = 12 /\ Len(responses) = 3
    /\ responses[2] = Response("ok", <<Tok("prose")>>)
    /\ \A i \in (1..5) \cup (11..12) : all_results[english_names[i]] = ZH
    /\ \A i \in 6..10 : all_results[english_names[i]] = english_names[i]

\* the request for the k-th batch: the names at positions 5(k-1)+1 .. 5k
\* (or to the end of the list), numbered from 1 in input order
ExpectedRequest(k) ==
    [i \in 1..Len(BatchK(k)) |-> <<i, BatchK(k)[i]>>]

\* C7: for n names exactly ceil(n/5) requests are sent, one after the
\* other in input order; request k carries the k-th five names (the last
\* one the rest), and a request is sent only when every earlier response
\* has been processed.
C7_BatchesInOrder ==
    (t_pc # "idle" /\ configured) =>
        /\ Len(responses) <= Len(sent) /\ Len(sent) <= Len(responses) + 1
        /\ (t_pc = "await") = (Len(sent) = Len(responses) + 1)
        /\ \A k \in 1..Len(sent) :
              /\ sent[k] = ExpectedRequest(k)
              /\ Len(sent[k]) >= 1
              /\ k < Len(sent) => Len(sent[k]) = 5
        /\ t_pc = "returned" =>
              /\ Len(sent) = (Len(english_names) + 4) \div 5
              /\ Len(responses) = Len(sent)

\* 12 names: three requests of 5, 5 and 2 names
C7_Witness ==
    /\ t_pc = "returned" /\ configured
    /\ Len(english_names) = 12
    /\ Len(sent) = 3
    /\ Len(sent[1]) = 5 /\ Len(sent[2]) = 5 /\ Len(sent[3]) = 2

----------------------------------------------------------------------------
(* Properties of the classifier (SpecNotable, SpecMatch)                   *)

\* a is a substring of b, case ignored
SubstringOf(a, b) ==
    \E k \in 0..(Len(b) - Len(a)) : SubSeq(Lower(b), k + 1, k + Len(a)) = Lower(a)

\* the company names a game record carries
CompanyNamesOf(game) ==
    {game.involved.list[i].name :
        i \in {j \in 1..Len(game.involved.list) :
                 /\ game.involved.present
                 /\ game.involved.list[j].k = "dict"
                 /\ game.involved.list[j].hasName}}

AllowList(impl) ==
    IF impl = "server" THEN NOTABLE_DEVELOPERS ELSE API_NOTABLE_DEVELOPERS

\* C8: is_notable_game is true exactly when hypes >= 10, or some involved
\* company name and some allow-list entry contain one another (case
\* ignored, either direction).
C8_NotableIffHypesOrCompany ==
    n_pc = "returned" =>
        n_result =
           (\/ (n_game.hypes.k = "int" /\ n_game.hypes.v >= 10)
            \/ \E c \in CompanyNamesOf(n_game) : \E e \in AllowList(n_impl) :
                  SubstringOf(e, c) \/ SubstringOf(c, e))

NoCompanyData(game) == ~game.involved.present \/ game.involved.list = <<>>

\* C9: without company data the result is true for hypes = 10 and false
\* for hypes = 9; an absent or null hype count counts as 0 and gives false.
C9_HypesThreshold ==
    (n_pc = "returned" /\ NoCompanyData(n_game)) =>
        /\ n_game.hypes = HInt(10) => n_result
        /\ n_game.hypes = HInt(9) => ~n_result
        /\ n_game.hypes \in {HAbsent, HNull} => ~n_result
        /\ n_result = (n_game.hypes.k = "int" /\ n_game.hypes.v >= 10)

\* hypes = 10 and no company data: notable
C9_Witness ==
    /\ n_pc = "returned" /\ NoCompanyData(n_game)
    /\ n_game.hypes = HInt(10)
    /\ n_result

EA_SPORTS_INC == <<69,65,32,83,112,111,114,116,115,32,73,110,99,46>>   \* "EA Sports Inc."
EA_SPORTS == <<69,65,32,83,112,111,114,116,115>>                       \* "EA Sports"
EA == <<69,65>>                                                        \* "EA"
ELECTRONIC_ARTS == <<69,108,101,99,116,114,111,110,105,99,32,65,114,116,115>>  \* "Electronic Arts"

\* C10: the company test is substring containment of the two names, case
\* ignored: "EA Sports Inc." matches the entry "EA Sports", and "EA" does
\* not match the entry "Electronic Arts".
C10_LiteralSubstring ==
    m_pc = "returned" =>
        /\ (m_company = EA_SPORTS_INC /\ m_notable = EA_SPORTS) => m_result
        /\ (m_company = EA /\ m_notable = ELECTRONIC_ARTS) => ~m_result
        /\ m_result = (SubstringOf(m_notable, m_company) \/ SubstringOf(m_company, m_notable))

\* "EA" was tested against "Electronic Arts" and did not match
C10_Witness ==
    /\ m_pc = "returned"
    /\ m_company = EA /\ m_notable = ELECTRONIC_ARTS
    /\ ~m_result

\* no involvement entry carries a company name: every entry lacks the
\* company, or its company is a record without a name
NoCompanyName(game) ==
    \A i \in 1..Len(game.involved.list) :
        /\ game.involved.list[i] \in {CAbsent, CNoName}

\* C11: a game with hypes below 10 (or absent) whose involvement entries
\* carry no company name (company missing, or a record without a name) is
\* classified not notable.
C11_AbsentNameIsNotNotable ==
    (/\ n_pc = "returned"
     /\ HypesOrZero(n_game.hypes) < 10
     /\ NoCompanyName(n_game)) => ~n_result

----------------------------------------------------------------------------
(* Properties of the detail fetchers and the detail lookup (SpecDetail)    *)

\* a fetch has just ended: d_details is what it returned for the last
\* answer, unless it raised
FetchEnded == d_pc \in {"primary_done", "fallback_done", "raised"}
LastAnswer == d_answers[Len(d_answers)]
Fetcher == create_fetcher_from_env(d_env)

\* the response never arrived or has no choices[0].message.content text
NoContent(resp) == resp.status # "ok"

\* the text the fetcher hands to json.loads
Extracted(fetcher, c) ==
    IF fetcher = "doubao" THEN SliceBraces(StripFence(c)) ELSE StripFence(c)

\* the text is JSON and its value is not an object
JsonButNoObject(c) == DetailLoads(c).ok /\ ~DetailLoads(c).isDict

\* C12 as stated: fetch returns None and raises nothing for every
\* transport failure, every response without choices/message/content,
\* every content that is JSON but not an object, and every JSON parse
\* failure, with either fetcher.
C12_FailureGivesNone ==
    (/\ FetchEnded
     /\ \/ NoContent(LastAnswer)
        \/ JsonButNoObject(StripFence(LastAnswer.content))
        \/ ~DetailLoads(Extracted(Fetcher, LastAnswer.content)).ok)
    => (d_pc # "raised" /\ d_details.isNone)

\* C12 amended: fetch returns None and raises nothing for every
\* transport failure, every response without choices/message/content and
\* every text that, after the fetcher's own extraction (fences; for the
\* Doubao fetcher also first "{" to last "}"), fails to parse or parses to
\* something that is not an object, with either fetcher.  (The Doubao
\* fetcher returns details for an object wrapped in an array.)
C12_FailureGivesNoneAfterExtraction ==
    (/\ FetchEnded
     /\ \/ NoContent(LastAnswer)
        \/ ~DetailLoads(Extracted(Fetcher, LastAnswer.content)).isDict)
    => (d_pc # "raised" /\ d_details.isNone)

\* the Doubao fetcher got an array of scalars and returned None
C12_Witness ==
    /\ d_pc = "primary_done" /\ Fetcher = "doubao"
    /\ LastAnswer = Response("ok", <<DTok("lbr"), DTok("scalar"), DTok("comma"), DTok("scalar"), DTok("rbr")>>)
    /\ d_details.isNone

\* what the fetch for the primary name returned (once its answer is there)
PrimaryAbsent ==
    LET o == Fetch(Fetcher, d_name, d_answers[1])
    IN  o.exc = "none" /\ o.ret.isNone

\* C13: a lookup (with a fetcher) posts exactly one request for the
\* primary name, and one more, for the fallback name, exactly when the
\* primary fetch returned None and a non-empty fallback name other than the
\* primary name was given; requests go out one at a time, the primary
\* first, never more than two.
C13_OneRequestPerName ==
    /\ Len(d_sent) <= 2
    /\ Len(d_answers) <= Len(d_sent) /\ Len(d_sent) <= Len(d_answers) + 1
    /\ Len(d_sent) >= 1 => d_sent[1] = d_name
    /\ Len(d_sent) = 2 => (d_sent[2] = d_fallback.s /\ Len(d_answers) >= 1)
    /\ (d_pc = "returned" /\ Fetcher # "none") =>
          /\ Len(d_sent) >= 1 /\ Len(d_answers) = Len(d_sent)
          /\ (Len(d_sent) = 2) =
                (/\ PrimaryAbsent
                 /\ d_fallback.given /\ d_fallback.s # <<>> /\ d_fallback.s # d_name)
    /\ (d_pc = "returned" /\ Fetcher = "none") => d_sent = <<>>

\* the primary fetch failed and the fallback name was asked for
C13_Witness ==
    /\ d_pc = "returned"
    /\ d_sent = <<NameAt(1), ZH>>
    /\ d_answers[1] = Response("conn_error", <<>>)
    /\ d_fallback = Fallback(ZH)

\* the response of the same lookup had the model answered the request for
\* the primary name with the empty object {}: fetch returns a GameDetails,
\* no fallback is tried
LookupWithEmptyObject ==
    LET o == Fetch(Fetcher, d_name, Response("ok", ObjectText(EmptyObject)))
    IN  IF o.exc = "none" THEN Respond(d_impl, d_name, o.ret)
        ELSE HttpResponse(500, NoBody)

\* C14 as stated: for every game name and every optional fallback name,
\* the response of a lookup whose primary fetch fails equals the response
\* of the lookup whose primary fetch is answered with {}.
C14_FailedEqualsEmptyObject ==
    (d_pc = "returned" /\ Fetcher # "none" /\ PrimaryAbsent) =>
        d_response = LookupWithEmptyObject

\* C14 amended: the lookup answered with {} gives the empty "no data"
\* response under the primary name; the lookup whose primary fetch fails
\* gives that same response exactly when no fallback fetch is made (no
\* fallback name, an empty one, or one equal to the primary name) or the
\* fallback fetch returns None too.  Otherwise its response is built from
\* the fallback fetch.
C14_FailedEqualsEmptyObjectUnlessFallback ==
    (d_pc = "returned" /\ Fetcher # "none" /\ PrimaryAbsent) =>
        /\ LookupWithEmptyObject = HttpResponse(200, EmptyBody(d_name))
        /\ (d_response = LookupWithEmptyObject) = (Len(d_sent) = 1 \/ d_details.isNone)

\* a lookup without fallback name whose only request met a network error
C14_Witness ==
    /\ d_pc = "returned" /\ Fetcher # "none"
    /\ d_fallback = NoFallback
    /\ d_answers = <<Response("conn_error", <<>>)>>
    /\ d_response = HttpResponse(200, EmptyBody(d_name))

\* the credits of a GameDetails, role after role
AllCredits(details) ==
    details.directors \o details.writers \o details.composers \o details.producers

\* C15: every credit of a GameDetails returned by fetch has a non-empty
\* person name (entries whose name is missing or empty are skipped), for
\* every fetcher create_fetcher_from_env can return.
C15_CreditsHaveNames ==
    (FetchEnded /\ d_pc # "raised" /\ ~d_details.isNone) =>
        \A i \in 1..Len(AllCredits(d_details.v)) :
            LET name == AllCredits(d_details.v)[i].name
            IN  name.t = "str" /\ name.s # <<>>

\* the object the fetcher parses out of the last answer
ParsedObject == DetailLoads(Extracted(Fetcher, LastAnswer.content))

\* a role array that is missing, or a (possibly empty) list of credits
\* each with a non-empty name
CreditsOrMissing(a) ==
    /\ a.t \in {"absent", "list"}
    /\ \A i \in 1..Len(a.items) :
          /\ a.items[i].kind = "obj"
          /\ a.items[i].name.t = "str" /\ a.items[i].name.s # <<>>

\* an object in which every category is missing, empty or supplied
PartialAnswer(o) ==
    /\ \A key \in Roles : CreditsOrMissing(o[key])
    /\ o.series.t \in {"absent", "str"}
    /\ o.related_games.t \in {"absent", "list"}
    /\ o.highlights.t \in {"absent", "list"}

\* C16: when the object of the answer has some or all of the role arrays,
\* series, related_games, highlights missing or empty, fetch returns a
\* GameDetails (not None) in which exactly those categories are empty and
\* the supplied ones are populated with what was supplied.
C16_PartialAnswerIsSuccess ==
    (/\ FetchEnded /\ LastAnswer.status = "ok"
     /\ ParsedObject.isDict /\ PartialAnswer(ParsedObject.obj)) =>
        /\ d_pc # "raised" /\ ~d_details.isNone
        /\ \A key \in Roles :
              Len(d_details.v[key]) = Len(ParsedObject.obj[key].items)
        /\ d_details.v.series =
              (IF ParsedObject.obj.series.t = "absent" THEN VStr(<<>>)
               ELSE ParsedObject.obj.series)
        /\ d_details.v.related_games =
              (IF ParsedObject.obj.related_games.t = "absent" THEN VList(<<>>)
               ELSE ParsedObject.obj.related_games)
        /\ d_details.v.highlights =
              (IF ParsedObject.obj.highlights.t = "absent" THEN VList(<<>>)
               ELSE ParsedObject.obj.highlights)

\* an answer with a director and a series, writers empty, everything else
\* missing
C16_Witness ==
    /\ d_pc = "primary_done"
    /\ LastAnswer = Response("ok", ObjectText(
          [EmptyObject EXCEPT !.directors = RList(<<OwnCredit("directors")>>),
                              !.writers = RList(<<>>),
                              !.series = VStr(SERIES_S),
                              !.highlights = VList(<<>>)]))
    /\ ~d_details.isNone
    /\ Len(d_details.v.directors) = 1 /\ d_details.v.writers = <<>>
    /\ d_details.v.composers = <<>> /\ d_details.v.producers = <<>>
    /\ d_details.v.series = VStr(SERIES_S)
    /\ d_details.v.related_games = VList(<<>>)

\* the entries of a role array as the response should list them: name and
\* known_for titles (none when the key is missing), in the array's order
Listed(a) ==
    [i \in 1..Len(a.items) |->
        [name |-> a.items[i].name,
         known_for |-> IF a.items[i].known_for.t = "absent" THEN VList(<<>>)
                       ELSE a.items[i].known_for]]

\* C17: when a lookup answers from a model response, each role array of
\* that response whose credits all have a non-empty name comes out under
\* the same role of the API response as exactly those credits, in the same
\* order, each with its name and its known_for titles in their order.
C17_CreditsRoundTrip ==
    (d_pc = "returned" /\ d_response.status = 200 /\ ~d_details.isNone) =>
        \A key \in Roles :
            CreditsOrMissing(ParsedObject.obj[key]) =>
                d_response.body[key] = Listed(ParsedObject.obj[key])

\* two directors and one writer went through the lookup of api/index.py
C17_Witness ==
    /\ d_pc = "returned" /\ d_impl = "api" /\ d_response.status = 200
    /\ d_answers = <<Response("ok", ObjectText(FullObject))>>
    /\ d_response.body.directors =
          << [name |-> VStr(<<68>>), known_for |-> VList(<<TITLE_1>>)],
             [name |-> VStr(PERSON_A), known_for |-> VList(<<TITLE_1, TITLE_2>>)] >>
    /\ d_response.body.writers =
          << [name |-> VStr(<<87>>), known_for |-> VList(<<TITLE_1>>)] >>
    /\ d_response.body.producers = <<>>

\* C18 (detail lookup): with credentials configured every lookup ends in
\* a successful, possibly empty, response (status 200) whatever the LLM
\* service answers; the only failure is service-unavailable (503), exactly
\* when no credentials are configured, and then no request is sent.
C18_OnlyServiceUnavailable ==
    d_pc \in {"returned", "raised"} =>
        /\ Fetcher # "none" => d_response.status = 200
        /\ Fetcher = "none" => (d_response.status = 503 /\ d_sent = <<>>)

----------------------------------------------------------------------------
(* Properties of the games listing (SpecListing)                           *)

\* C19: in the listing a game's localized name is set exactly when the
\* translate toggle is on and the translator's mapping gives the game's
\* name a value other than the name, and is then that value; otherwise it
\* is null.  With the toggle off or an empty catalog result the translator
\* is not called.  The listing has one entry per catalog record, in
\* catalog order.
C19_LocalizedName ==
    /\ (~l_translate \/ l_games = <<>>) => l_calls = <<>>
    /\ Len(l_calls) <= 1
    /\ (l_pc = "returned" /\ l_response.status = 200) =>
          /\ Len(l_response.games) = Len(l_games)
          /\ \A i \in 1..Len(l_games) :
                LET en == NameOr(l_games[i], <<>>)
                    entry == IF i <= Len(l_response.games) THEN l_response.games[i]
                             ELSE convert_game(l_games[i], NoName)
                    translated == /\ l_translate
                                  /\ en \in DOMAIN l_cn_names
                                  /\ l_cn_names[en] # en
                IN  /\ entry.id = l_games[i].id
                    /\ entry.name_cn.given = translated
                    /\ translated => entry.name_cn.s = l_cn_names[en]

\* three records: the first is translated, the second is mapped to its own
\* name, the third has no name
C19_Witness ==
    /\ l_pc = "returned" /\ l_translate
    /\ l_games = <<GameRecord(1, Name(NameAt(1))), GameRecord(2, Name(NameAt(2))),
                   GameRecord(3, NoName)>>
    /\ l_calls = <<<<NameAt(1), NameAt(2)>>>>
    /\ Len(l_response.games) = 3
    /\ l_response.games[1].name_cn = Name(ZH)
    /\ l_response.games[2].name_cn = NoName
    /\ l_response.games[3].name_cn = NoName

----------------------------------------------------------------------------
(* Properties of the company extractor (SpecCompanies)                     *)

\* the involvement entries of the game whose flag for the role is set and
\* that carry a company name, in involvement order
NamedForRole(game, role) ==
    SelectSeq(game.involved.list,
              LAMBDA ic : /\ IF role = "developer" THEN ic.developer ELSE ic.publisher
                          /\ ic.company.k = "dict" /\ ic.company.hasName)

\* the no-data sentinel: None in server.py and api/index.py, "-" in main.py
Sentinel(impl) == IF impl = "cli" THEN Name(<<45>>) ELSE NoName

\* C20: get_companies(game, role) returns the company names of exactly the
\* involvement entries whose flag for the role is set, in involvement
\* order, joined by ", ", and the no-data sentinel when there is no such
\* name or the involvement list is absent or empty (so an entry flagged
\* for both roles is in both results).
C20_NamesOfFlaggedEntries ==
    g_pc = "returned" =>
        LET named == NamedForRole(g_game, g_role)
            names == [i \in 1..Len(named) |-> named[i].company.name]
        IN  g_result = IF names = <<>> THEN Sentinel(g_impl) ELSE Name(Join(names))

----------------------------------------------------------------------------
(* Properties of the genre extractor (SpecGenres)                          *)

\* the names of the well-formed entries of the field genres (records with
\* a non-empty name), in record order
WellFormedGenres(game) ==
    LET ok == SelectSeq(game.genres.list,
                        LAMBDA g : g.k = "dict" /\ g.name = "str" /\ g.s # <<>>)
    IN  [i \in 1..Len(ok) |-> ok[i].s]

\* C21: get_genres returns the genre names in record order and skips
\* every malformed entry (not a record, or a record without a name)
\* silently: it raises nothing and no empty name appears; the API
\* extractors return the list of names, the CLI extractor the names joined
\* by ", " (nothing but its no-data text when there is no name).
C21_GenresSkipMalformed ==
    x_pc # "call" =>
        /\ x_pc = "returned"
        /\ LET names == WellFormedGenres(x_game)
           IN  IF x_impl = "cli"
               THEN IF names = <<>> THEN x_result \in {<<45>>, <<>>}
                    ELSE x_result = Join(names)
               ELSE x_result = names

----------------------------------------------------------------------------
(* Further properties of the translator (SpecTranslator)                   *)

\* a triple that passes the three tests: sure set, en and cn not empty, a
\* CJK ideograph in cn
Accepted(t) ==
    /\ t.kind = "obj"
    /\ SureSet(t.sure)
    /\ t.en.t = "str" /\ t.en.s # <<>>
    /\ t.cn.t = "str" /\ t.cn.s # <<>>
    /\ \E i \in 1..Len(t.cn.s) : t.cn.s[i] \in 19968..40959

\* the one name of the batch a triple with this en is about: en itself if
\* it is a name of the batch, otherwise the first name equal to en once
\* case and surrounding blanks are ignored; no name if there is none
TargetOf(names, en) ==
    IF en \in Range(names) THEN {en}
    ELSE LET hits == {i \in 1..Len(names) : Strip(Lower(names[i])) = Strip(Lower(en))}
         IN  {names[i] : i \in {h \in hits : \A j \in hits : h <= j}}

\* the mapping d with the entry of the triple's target overwritten
Overwritten(d, names, t) ==
    [n \in DOMAIN d |-> IF n \in TargetOf(names, t.en.s) THEN t.cn.s ELSE d[n]]

RECURSIVE OverwrittenBy(_, _, _, _)
\* d after the accepted triples of items[i..] have been applied in order
OverwrittenBy(items, i, d, names) ==
    IF i > Len(items) THEN d
    ELSE OverwrittenBy(items, i + 1,
                       IF Accepted(items[i]) THEN Overwritten(d, names, items[i]) ELSE d,
                       names)

\* no triple of the array has an en or a cn of a wrong type (a number)
WellTyped(items) ==
    \A i \in 1..Len(items) :
        items[i].kind = "obj" =>
            items[i].en.t \in {"str", "absent", "null"}
            /\ items[i].cn.t \in {"str", "absent", "null"}

\* C22: an accepted triple overwrites only one entry of its batch: the
\* name exactly equal to its en if there is one, otherwise the (first)
\* name equal to en when case and surrounding blanks are ignored; every
\* other entry is left unchanged and a triple matching no name changes
\* nothing.  So the mapping of a batch is the identity mapping with these
\* single overwrites made in array order.
C22_OverwritesOneEntry ==
    (b_pc = "returned" /\ b_names # <<>> /\ ~Failed(b_response)
        /\ WellTyped(ParsedItems(b_response))) =>
        /\ b_result = OverwrittenBy(ParsedItems(b_response), 1,
                                    [n \in Range(b_names) |-> n], b_names)
        /\ \A i \in 1..Len(ParsedItems(b_response)) :
              Accepted(ParsedItems(b_response)[i]) =>
                 Cardinality(TargetOf(b_names, ParsedItems(b_response)[i].en.s)) <= 1

\* two names of the batch equal the en of an accepted triple once case and
\* blanks are ignored, neither exactly: the first one is overwritten, the
\* second one and the third name keep their values
C22_Witness ==
    /\ b_pc = "returned" /\ Len(b_names) = 3
    /\ Len(ParsedItems(b_response)) = 1
    /\ LET t == ParsedItems(b_response)[1]
       IN  /\ Accepted(t)
           /\ t.en.s \notin Range(b_names)
           /\ Strip(Lower(b_names[1])) = Strip(Lower(t.en.s))
           /\ Strip(Lower(b_names[2])) = Strip(Lower(t.en.s))
           /\ b_names[1] # b_names[2]
           /\ b_result[b_names[1]] = t.cn.s
           /\ b_result[b_names[2]] = b_names[2]
           /\ b_result[b_names[3]] = b_names[3]

\* what the k-th batch call returned for the name n
BatchValue(k, n) == TranslateBatch(BatchK(k), responses[k]).ret[n]

\* C26: when the input repeats a name in more than one batch, the final
\* value of the name is the one of the last batch that contains it: the
\* batch mappings are merged in batch order, later batches overwriting
\* earlier ones, so that a translation accepted in an earlier batch is
\* replaced by the later batch's value, its identity default included.
C26_LastBatchWins ==
    (t_pc = "returned" /\ configured) =>
        \A n \in Range(english_names) :
            /\ n \in DOMAIN all_results
            /\ InSomeBatch(n)
            /\ all_results[n] = BatchValue(LastBatchOf(n), n)

\* a name of the first and of the second batch: the first batch translated
\* it, the call for the second batch failed, the name has its own name in
\* the result
C26_Witness ==
    /\ t_pc = "returned" /\ configured /\ Len(responses) = 2
    /\ \E n \in Range(BatchK(1)) \cap Range(BatchK(2)) :
          /\ BatchValue(1, n) = ZH
          /\ Failed(responses[2])
          /\ all_results[n] = n

\* C27: within one batch, rejecting a triple affects only that triple:
\* whatever the other elements of the array are (elements that are no
\* records, triples with missing, empty or wrongly typed fields, triples
\* that fail validation), every valid triple that matches a name of the
\* batch is applied to the mapping of the batch.
C27_RejectionIsLocal ==
    (b_pc = "returned" /\ b_names # <<>> /\ ~Failed(b_response)) =>
        LET items == ParsedItems(b_response)
        IN  \A i \in 1..Len(items) :
               (Accepted(items[i]) /\ TargetOf(b_names, items[i].en.s) # {}) =>
                  \A n \in TargetOf(b_names, items[i].en.s) :
                     b_result[n] = OverwrittenBy(items, 1, [m \in Range(b_names) |-> m],
                                                 b_names)[n]

----------------------------------------------------------------------------
(* Further properties of the detail fetchers (SpecDetail)                  *)

\* the object text t wrapped in a markdown code fence and/or between prose
WrappedForms(t) ==
    { <<DTok("fence_json")>> \o t \o <<DTok("fence")>>,
      <<DTok("fence")>> \o t \o <<DTok("fence")>>,
      <<DTok("prose")>> \o t \o <<DTok("prose")>>,
      <<DTok("prose"), DTok("fence_json")>> \o t \o <<DTok("fence"), DTok("prose")>> }

\* the name the last request was posted for
LastSent == d_sent[Len(d_sent)]

\* C23: for every answer text made of a valid JSON object wrapped in a
\* markdown code fence and/or preceded and followed by prose, fetch
\* returns the same GameDetails as for the bare object, with every fetcher
\* create_fetcher_from_env can return.
C23_WrappingTolerated ==
    (FetchEnded /\ LastAnswer.status = "ok") =>
        \A o \in {FullObject, EmptyObject} :
            LastAnswer.content \in WrappedForms(ObjectText(o)) =>
                /\ d_pc # "raised"
                /\ d_details = Fetch(Fetcher, LastSent, Response("ok", ObjectText(o))).ret

\* the fallback name was fetched (the primary fetch returned absent) and
\* its fetch returned a result
FallbackGaveResult == Len(d_sent) = 2 /\ Len(d_answers) = 2 /\ ~d_details.isNone

\* C30: the name field of a detail response is the name under which the
\* data was obtained: the requested game name when the primary fetch
\* returned a result or when both fetches returned absent, and the
\* fallback name exactly when the primary fetch returned absent and the
\* fallback fetch returned a result.
C30_NameOfTheSource ==
    (d_pc = "returned" /\ d_response.status = 200) =>
        /\ d_sent[1] = d_name
        /\ Len(d_sent) = 2 => d_sent[2] = d_fallback.s /\ PrimaryAbsent
        /\ d_response.body.name =
              (IF FallbackGaveResult THEN d_fallback.s ELSE d_name)

\* the primary fetch returned absent, the fetch for the fallback name
\* returned a result, and the response carries the fallback name
C30_Witness ==
    /\ d_pc = "returned" /\ d_response.status = 200
    /\ FallbackGaveResult
    /\ d_fallback.s # d_name
    /\ d_response.body.name = d_fallback.s
    /\ d_response.body.series = VStr(SERIES_S)

----------------------------------------------------------------------------
(* Properties of the catalog query (SpecQuery)                             *)

\* days from 1970-01-01 to the first day of a month, counted by 400-year
\* eras with the year starting in March
DaysFromCivil(year, month) ==
    LET y == IF month <= 2 THEN year - 1 ELSE year
        era == y \div 400
        yoe == y - era * 400
        mp == IF month > 2 THEN month - 3 ELSE month + 9
        doy == (153 * mp + 2) \div 5
        doe == yoe * 365 + (yoe \div 4) - (yoe \div 100) + doy
    IN  era * 146097 + doe - 719468

\* the month after (year, month)
FollowingMonth(year, month) ==
    IF month = 12 THEN <<year + 1, 1>> ELSE <<year, month + 1>>

\* C24: for every year and every month in 1..12, get_upcoming_games
\* filters on [first instant of the month, first instant of the following
\* month) in UTC: lower bound inclusive, upper bound exclusive and
\* strictly greater, and for month 12 the upper bound is 1 January of
\* year + 1.
C24_HalfOpenMonth ==
    (q_pc # "call" /\ q_year \in MINYEAR..MAXYEAR /\ q_month \in 1..12) =>
        LET next == FollowingMonth(q_year, q_month)
        IN  /\ q_pc = "requested"
            /\ q_query.lower_op = ">=" /\ q_query.upper_op = "<"
            /\ q_query.lower = [days |-> DaysFromCivil(q_year, q_month), seconds |-> 0]
            /\ q_query.upper = [days |-> DaysFromCivil(next[1], next[2]), seconds |-> 0]
            /\ q_query.upper.days > q_query.lower.days

----------------------------------------------------------------------------
(* Properties of the catalog client (SpecClient)                           *)

\* what a call returns when it is the first one the process serves: the
\* games if the token endpoint issues the token and the catalog is up,
\* [] otherwise
FirstCallResult(env) ==
    IF env.auth = "token" /\ env.catalog = "up" THEN CATALOG ELSE <<>>

\* C25: no shared mutable state crosses call boundaries: a request leaves
\* no process-wide state behind that a later request reads (between
\* requests the process holds what it held at start), and what a request
\* returns depends only on how the external services behave during it,
\* not on the requests served before.
C25_NoStateAcrossCalls ==
    c_pc = "ready" =>
        /\ c_token = NoToken
        /\ c_calls > 0 => c_result = FirstCallResult(c_env)

\* C28: a catalog request is sent only while the client holds an access
\* token: without a token the client authenticates first; when
\* authentication yields no token, _request returns [] without sending
\* the catalog request; once a token is held, later calls send the
\* catalog request without authenticating again.
C28_TokenBeforeCatalog ==
    /\ \A i \in 1..Len(c_log) :
          c_log[i].to = "catalog" => HasToken(c_log[i].bearer)
    /\ \A i \in 1..Len(c_log) :
          (c_log[i].to = "catalog" /\ c_impl = "server") =>
              \A j \in (i + 1)..Len(c_log) : c_log[j].to # "auth"
    /\ (c_pc # "auth" /\ Len(c_log) > 0 /\ c_log[Len(c_log)].to = "auth") =>
          (c_pc = "raised" \/ c_result = <<>>)

----------------------------------------------------------------------------
(* Properties of the serverless handler (SpecHandler)                      *)

\* the request is for the games listing, for a detail lookup
ForListing == h_path \in {PATH_GAMES, PATH_GAMES_SLASH}
ForDetail ==
    /\ ~ForListing
    /\ StartsWith(h_path, PATH_GAMES_SLASH) /\ EndsWith(h_path, SUFFIX_DETAIL)

\* the status the route calls for
RouteStatus ==
    IF ForListing
    THEN IF ~h_env.igdb THEN 503 ELSE IF h_year = "text" THEN 500 ELSE 200
    ELSE IF ForDetail
    THEN IF ~h_env.llm THEN 503 ELSE 200
    ELSE 404

\* C29: the serverless handler answers every GET with the status computed
\* for the route: 503 when the required credentials are absent, 404 for a
\* path that is neither the listing nor a detail route, 500 when handling
\* raises, 200 otherwise; the status on the wire always equals the status
\* paired with the body.
C29_WireStatusIsRouteStatus ==
    h_pc = "answered" =>
        /\ h_status = RouteStatus
        /\ h_wire = h_status

====
